---- MODULE Spec2Model ----
(***************************************************************************)
(* Validation & Confidence Engine of the bank statement converter:         *)
(* risk signal detector, hard rules validator, error pattern matcher,      *)
(* confidence scorer and the orchestrator (BankStatementPipeline.process). *)
(*                                                                         *)
(* Encodings.  Python Decimal values are records [k, c, e] standing for    *)
(* c * 10^e (k = "none" is Python None, k = "nan" is Decimal('NaN')).      *)
(* Python floats in [0,1] are                                              *)
(* fixed-point integers in units of 1/10000 (8500 is 0.85).  Dates are     *)
(* proleptic ordinals (date.toordinal() >= 1); 0 stands for None.  Row     *)
(* indices in findings are the 0-based indices the code emits.             *)
(***************************************************************************)
EXTENDS Integers, Sequences, FiniteSets, TLC

\* ------------------------------------------------------------------ bounds
MaxRows == 2
MaxToday == 2
MaxCovRows == 11

\* ------------------------------------------------------- generic helpers
Max(a, b) == IF a >= b THEN a ELSE b
Min(a, b) == IF a <= b THEN a ELSE b
Abs(a) == IF a < 0 THEN -a ELSE a

RECURSIVE Flatten(_)
Flatten(ss) == IF ss = << >> THEN << >> ELSE Head(ss) \o Flatten(Tail(ss))

RECURSIVE SumSeq(_)
SumSeq(s) == IF s = << >> THEN 0 ELSE Head(s) + SumSeq(Tail(s))

\* the elements of S within lo..hi in increasing order
\* (a comprehension [i for i in range(lo, hi + 1) if ...] over indices)
RECURSIVE SortedFrom(_, _, _)
SortedFrom(S, lo, hi) ==
    IF lo > hi THEN << >>
    ELSE (IF lo \in S THEN <<lo>> ELSE << >>) \o SortedFrom(S, lo + 1, hi)

\* Python slice s[:n]
Prefix(s, n) == SubSeq(s, 1, Min(n, Len(s)))

\* ------------------------------------------------------------- Decimal
RECURSIVE Pow10(_)
Pow10(n) == IF n <= 0 THEN 1 ELSE 10 * Pow10(n - 1)

NoneDec == [k |-> "none", c |-> 0, e |-> 0]
Dec(c, e) == [k |-> "fin", c |-> c, e |-> e]
\* Decimal('NaN'), a quiet NaN
NaN == [k |-> "nan", c |-> 0, e |-> 0]
IsNone(d) == d.k = "none"
IsNaN(d) == d.k = "nan"
\* numeric value in thousandths (all modelled exponents are >= -3)
Mills(d) == d.c * Pow10(d.e + 3)
DecFromMills(m, e) == Dec(m \div Pow10(e + 3), e)
\* Decimal.__add__ / __sub__: exact, result exponent is the smaller one
\* a quiet NaN operand makes the result NaN without signalling
DecAdd(a, b) ==
    IF IsNaN(a) \/ IsNaN(b) THEN NaN
    ELSE DecFromMills(Mills(a) + Mills(b), Min(a.e, b.e))
DecSub(a, b) ==
    IF IsNaN(a) \/ IsNaN(b) THEN NaN
    ELSE DecFromMills(Mills(a) - Mills(b), Min(a.e, b.e))
DecAbs(a) == IF IsNaN(a) THEN NaN ELSE Dec(Abs(a.c), a.e)
\* Decimal.__gt__ / __lt__ of finite operands; with a NaN operand the
\* comparison signals InvalidOperation (see DecCompareRaises)
DecGT(a, b) == Mills(a) > Mills(b)
DecLT(a, b) == Mills(a) < Mills(b)
DecCompareRaises(a, b) == IsNaN(a) \/ IsNaN(b)
\* Decimal.__eq__ with 0: NaN == 0 is False and does not signal
DecIsZero(a) == ~ IsNaN(a) /\ Mills(a) = 0
DecZero == Dec(0, 0)

\* ---------------------------------------------------------- data model
NoDate == 0
NoRow == -1
NoDiff == -1

\* TransactionRow with the dataclass defaults for everything not given
Row(d, dep, wd, bal) ==
    [transaction_date |-> d, description |-> << >>,
     deposit |-> dep, withdrawal |-> wd, balance |-> bal,
     date_confidence |-> 0, amount_confidence |-> 0, balance_confidence |-> 0,
     page_number |-> 1, amount_raw |-> << >>, date_raw |-> << >>]

\* OCRResult with the dataclass defaults
EmptyTable ==
    [rows |-> << >>, header |-> << >>, header_detected |-> FALSE,
     header_confidence |-> 0, opening_balance |-> NoneDec,
     closing_balance |-> NoneDec, page_count |-> 1, overall_confidence |-> 0]

RuleViolation(rule, severity, row, field, expected, actual, difference) ==
    [rule |-> rule, severity |-> severity, row |-> row, field |-> field,
     expected |-> expected, actual |-> actual, difference |-> difference]

\* ------------------------------------------------- hard rules validator
tolerance == Dec(2, -2)

\* is_valid_currency: abs(exponent) > 2 or abs(amount) > 1_000_000 is invalid;
\* the exponent of a NaN is the string 'n', abs() of it raises and the bare
\* except returns False
is_valid_currency(amount) ==
    /\ ~ IsNaN(amount)
    /\ Abs(amount.e) <= 2
    /\ ~ (Mills(DecAbs(amount)) > 1000000 * 1000)

\* variant: a date equal to the preceding one counts as reversed
DateViolationsAt_non_strict(rows, now, i) ==
    LET row == rows[i] IN
    IF row.transaction_date = NoDate
    THEN << RuleViolation("DATE_MISSING", "CRITICAL", i - 1, "", NoneDec, NoneDec, NoDiff) >>
    ELSE (IF row.transaction_date > now
          THEN << RuleViolation("DATE_IN_FUTURE", "CRITICAL", i - 1, "", NoneDec, NoneDec, NoDiff) >>
          ELSE << >>)
         \o
         (IF /\ i > 1
             /\ rows[i - 1].transaction_date # NoDate
             /\ row.transaction_date <= rows[i - 1].transaction_date
          THEN << RuleViolation("DATE_NOT_MONOTONIC", "HIGH", i - 1, "", NoneDec, NoneDec, NoDiff) >>
          ELSE << >>)

\* body of the loop of validate_date_range for the row at 1-based position i
DateViolationsAt(rows, now, i) ==
    LET row == rows[i] IN
    IF row.transaction_date = NoDate
    THEN << RuleViolation("DATE_MISSING", "CRITICAL", i - 1, "", NoneDec, NoneDec, NoDiff) >>
    ELSE (IF row.transaction_date > now
          THEN << RuleViolation("DATE_IN_FUTURE", "CRITICAL", i - 1, "", NoneDec, NoneDec, NoDiff) >>
          ELSE << >>)
         \o
         (IF /\ i > 1
             /\ rows[i - 1].transaction_date # NoDate
             /\ row.transaction_date < rows[i - 1].transaction_date
          THEN << RuleViolation("DATE_NOT_MONOTONIC", "HIGH", i - 1, "", NoneDec, NoneDec, NoDiff) >>
          ELSE << >>)

validate_date_range(result, now) ==
    Flatten([i \in 1..Len(result.rows) |-> DateViolationsAt(result.rows, now, i)])

FormatViolation(row, i, field) ==
    IF ~ IsNone(row[field]) /\ ~ is_valid_currency(row[field])
    THEN << RuleViolation("INVALID_AMOUNT_FORMAT", "CRITICAL", i - 1, field, NoneDec, NoneDec, NoDiff) >>
    ELSE << >>

\* variant: zero amounts count as values
AmountViolationsAt_no_zero_test(rows, i) ==
    LET row == rows[i] IN
    (IF IsNone(row.deposit) /\ IsNone(row.withdrawal)
     THEN << RuleViolation("NO_AMOUNT", "HIGH", i - 1, "", NoneDec, NoneDec, NoDiff) >>
     ELSE IF ~ IsNone(row.deposit) /\ ~ IsNone(row.withdrawal)
          THEN << RuleViolation("BOTH_DEPOSIT_WITHDRAWAL", "MEDIUM", i - 1, "", NoneDec, NoneDec, NoDiff) >>
          ELSE << >>)
    \o FormatViolation(row, i, "deposit")
    \o FormatViolation(row, i, "withdrawal")
    \o FormatViolation(row, i, "balance")

\* body of the loop of validate_amount_format for the row at position i
AmountViolationsAt(rows, i) ==
    LET row == rows[i] IN
    (IF IsNone(row.deposit) /\ IsNone(row.withdrawal)
     THEN << RuleViolation("NO_AMOUNT", "HIGH", i - 1, "", NoneDec, NoneDec, NoDiff) >>
     ELSE IF ~ IsNone(row.deposit) /\ ~ IsNone(row.withdrawal)
          THEN (IF ~ DecIsZero(row.deposit) /\ ~ DecIsZero(row.withdrawal)
                THEN << RuleViolation("BOTH_DEPOSIT_WITHDRAWAL", "MEDIUM", i - 1, "", NoneDec, NoneDec, NoDiff) >>
                ELSE << >>)
          ELSE << >>)
    \o FormatViolation(row, i, "deposit")
    \o FormatViolation(row, i, "withdrawal")
    \o FormatViolation(row, i, "balance")

validate_amount_format(result) ==
    Flatten([i \in 1..Len(result.rows) |-> AmountViolationsAt(result.rows, i)])

\* expected balance of the row at position i >= 2
ExpectedBalance(rows, i) ==
    LET prev == rows[i - 1].balance
        a == IF IsNone(rows[i].deposit) THEN prev ELSE DecAdd(prev, rows[i].deposit)
    IN  IF IsNone(rows[i].withdrawal) THEN a ELSE DecSub(a, rows[i].withdrawal)

\* variant: a difference equal to the tolerance is reported
RunningViolationsAt_inclusive(rows, i) ==
    IF IsNone(rows[i - 1].balance) \/ IsNone(rows[i].balance)
    THEN << >>
    ELSE LET expected == ExpectedBalance(rows, i)
             diff == DecAbs(DecSub(expected, rows[i].balance))
         IN  IF ~ DecLT(diff, tolerance)
             THEN << RuleViolation("RUNNING_BALANCE_MISMATCH", "CRITICAL", i - 1, "",
                                   expected, rows[i].balance, Mills(diff)) >>
             ELSE << >>

\* body of the loop of validate_running_balance for i (1-based, i >= 2)
RunningViolationsAt(rows, i) ==
    IF IsNone(rows[i - 1].balance) \/ IsNone(rows[i].balance)
    THEN << >>
    ELSE LET expected == ExpectedBalance(rows, i)
             diff == DecAbs(DecSub(expected, rows[i].balance))
         IN  IF DecGT(diff, tolerance)
             THEN << RuleViolation("RUNNING_BALANCE_MISMATCH", "CRITICAL", i - 1, "",
                                   expected, rows[i].balance, Mills(diff)) >>
             ELSE << >>

\* validate_running_balance raises decimal.InvalidOperation when diff is NaN
validate_running_balance_raises(result) ==
    \E i \in 2..Len(result.rows) :
        /\ ~ IsNone(result.rows[i - 1].balance)
        /\ ~ IsNone(result.rows[i].balance)
        /\ DecCompareRaises(DecAbs(DecSub(ExpectedBalance(result.rows, i), result.rows[i].balance)),
                            tolerance)

validate_running_balance(result) ==
    Flatten([j \in 1..(Len(result.rows) - 1) |-> RunningViolationsAt(result.rows, j + 1)])

RECURSIVE SumField(_, _)
SumField(rows, field) ==
    IF rows = << >> THEN DecZero
    ELSE LET rest == SumField(Tail(rows), field) IN
         IF IsNone(Head(rows)[field]) THEN rest ELSE DecAdd(Head(rows)[field], rest)

ExpectedClosing(result) ==
    DecSub(DecAdd(result.opening_balance, SumField(result.rows, "deposit")),
           SumField(result.rows, "withdrawal"))

\* validate_overall_balance raises decimal.InvalidOperation when diff is NaN
validate_overall_balance_raises(result) ==
    /\ ~ IsNone(result.opening_balance)
    /\ ~ IsNone(result.closing_balance)
    /\ DecCompareRaises(DecAbs(DecSub(ExpectedClosing(result), result.closing_balance)), tolerance)


\* variant: a difference equal to the tolerance is reported too
validate_overall_balance_inclusive(result) ==
    IF IsNone(result.opening_balance) \/ IsNone(result.closing_balance)
    THEN << >>
    ELSE LET expected == ExpectedClosing(result)
             diff == DecAbs(DecSub(expected, result.closing_balance))
         IN  IF ~ DecLT(diff, tolerance)
             THEN << RuleViolation("OVERALL_BALANCE_MISMATCH", "CRITICAL", NoRow, "",
                                   expected, result.closing_balance, Mills(diff)) >>
             ELSE << >>

validate_overall_balance(result) ==
    IF IsNone(result.opening_balance) \/ IsNone(result.closing_balance)
    THEN << >>
    ELSE LET expected == ExpectedClosing(result)
             diff == DecAbs(DecSub(expected, result.closing_balance))
         IN  IF DecGT(diff, tolerance)
             THEN << RuleViolation("OVERALL_BALANCE_MISMATCH", "CRITICAL", NoRow, "",
                                   expected, result.closing_balance, Mills(diff)) >>
             ELSE << >>

\* validate has no handler: an exception of a rule leaves validate
validate_raises(result) ==
    /\ result.rows # << >>
    /\ \/ validate_running_balance_raises(result)
       \/ validate_overall_balance_raises(result)

\* variant: the remaining rules still run on a table without rows
validate_no_short_circuit(result, now) ==
    (IF result.rows = << >>
     THEN << RuleViolation("NO_ROWS", "CRITICAL", NoRow, "", NoneDec, NoneDec, NoDiff) >>
     ELSE << >>)
    \o validate_date_range(result, now)
    \o validate_amount_format(result)
    \o validate_running_balance(result)
    \o validate_overall_balance(result)

validate(result, now) ==
    IF result.rows = << >>
    THEN << RuleViolation("NO_ROWS", "CRITICAL", NoRow, "", NoneDec, NoneDec, NoDiff) >>
    ELSE validate_date_range(result, now)
         \o validate_amount_format(result)
         \o validate_running_balance(result)
         \o validate_overall_balance(result)

PresentFields(row) ==
    (IF IsNone(row.deposit) THEN 0 ELSE 1)
    + (IF IsNone(row.withdrawal) THEN 0 ELSE 1)
    + (IF IsNone(row.balance) THEN 0 ELSE 1)


\* variant: the monotonicity checks of the adjacent pairs are not counted
count_checks_one_date_check(result) ==
    LET rows == result.rows
        n == Len(rows)
    IN  IF n = 0 THEN 1
        ELSE n + n
             + SumSeq([i \in 1..n |-> PresentFields(rows[i])])
             + Cardinality({i \in 2..n : ~ IsNone(rows[i - 1].balance) /\ ~ IsNone(rows[i].balance)})
             + (IF ~ IsNone(result.opening_balance) /\ ~ IsNone(result.closing_balance) THEN 1 ELSE 0)

count_checks(result) ==
    LET rows == result.rows
        n == Len(rows)
    IN  IF n = 0 THEN 1
        ELSE n + (IF n > 1 THEN n - 1 ELSE 0) + n
             + SumSeq([i \in 1..n |-> PresentFields(rows[i])])
             + Cardinality({i \in 2..n : ~ IsNone(rows[i - 1].balance) /\ ~ IsNone(rows[i].balance)})
             + (IF ~ IsNone(result.opening_balance) /\ ~ IsNone(result.closing_balance) THEN 1 ELSE 0)

\* ------------------------------------------------------------ text
\* str values are sequences of one-character strings
Lower(c) ==
    CASE c = "A" -> "a" [] c = "B" -> "b" [] c = "C" -> "c" [] c = "D" -> "d"
      [] c = "I" -> "i" [] c = "L" -> "l" [] c = "M" -> "m" [] c = "N" -> "n"
      [] c = "O" -> "o" [] c = "R" -> "r" [] c = "S" -> "s" [] c = "T" -> "t"
      [] c = "Y" -> "y" [] OTHER -> c

LowerStr(v) == [i \in 1..Len(v) |-> Lower(v[i])]

\* kw in text
Contains(text, kw) ==
    \E i \in 0..(Len(text) - Len(kw)) : SubSeq(text, i + 1, i + Len(kw)) = kw

HasChar(v, c) == \E i \in 1..Len(v) : v[i] = c

\* ' '.join(parts)
RECURSIVE Join(_)
Join(parts) ==
    IF parts = << >> THEN << >>
    ELSE IF Len(parts) = 1 THEN Head(parts)
    ELSE Head(parts) \o <<" ">> \o Join(Tail(parts))

\* --------------------------------------------------------- configuration
Get(map, key, default) == IF key \in DOMAIN map THEN map[key] ELSE default

\* ValidationConfig() with its dataclass defaults
ValidationConfig ==
    [confidence_threshold |-> 8500,
     field_coverage_thresholds |->
         [f \in {"transaction_date", "amount", "balance"} |->
             CASE f = "transaction_date" -> 9500 [] f = "amount" -> 9000 [] OTHER -> 8500],
     confidence_weights |->
         [k \in {"engine_quality", "field_completeness", "rule_consistency", "risk_signals"} |->
             CASE k = "engine_quality" -> 3000 [] k = "field_completeness" -> 2500
               [] k = "rule_consistency" -> 3000 [] OTHER -> 1500],
     trigger_rules |->
         [r \in {"low_confidence", "low_coverage", "structural_anomaly",
                 "logic_failure", "unknown_template"} |-> TRUE]]

\* --------------------------------------------------- risk signal detector
\* RiskSignals.add: severity, action and message are taken from details
RiskSignal(signal_type, severity, action, details) ==
    [signal_type |-> signal_type, severity |-> severity, action |-> action,
     details |-> details]

known_banks ==
    << <<"R","o","y","a","l"," ","B","a","n","k">>, <<"R","B","C">>, <<"R","o","y","a","l">>,
       <<"T","D"," ","B","a","n","k">>, <<"T","o","r","o","n","t","o","-","D","o","m","i","n","i","o","n">>,
       <<"T","D"," ","C","a","n","a","d","a">>,
       <<"B","a","n","k"," ","o","f"," ","M","o","n","t","r","e","a","l">>, <<"B","M","O">>,
       <<"B","M","O"," ","B","a","n","k">>,
       <<"S","c","o","t","i","a","b","a","n","k">>, <<"S","c","o","t","i","a">>,
       <<"B","a","n","k"," ","o","f"," ","N","o","v","a"," ","S","c","o","t","i","a">>,
       <<"C","I","B","C">>, <<"C","a","n","a","d","i","a","n"," ","I","m","p","e","r","i","a","l">>,
       <<"I","m","p","e","r","i","a","l"," ","B","a","n","k">> >>

LowConfEntry(row_idx, field, confidence, priority) ==
    [row |-> row_idx, field |-> field, confidence |-> confidence, priority |-> priority]

LowConfAt(rows, i, threshold) ==
    (IF rows[i].amount_confidence < threshold
     THEN << LowConfEntry(i - 1, "amount", rows[i].amount_confidence, "P0") >> ELSE << >>)
    \o (IF rows[i].balance_confidence < threshold
        THEN << LowConfEntry(i - 1, "balance", rows[i].balance_confidence, "P0") >> ELSE << >>)
    \o (IF rows[i].date_confidence < threshold
        THEN << LowConfEntry(i - 1, "transaction_date", rows[i].date_confidence, "P1") >> ELSE << >>)

check_low_confidence(result, config) ==
    LET rows == result.rows
        low_conf_fields == Flatten([i \in 1..Len(rows) |-> LowConfAt(rows, i, config.confidence_threshold)])
        p0_count == Cardinality({j \in 1..Len(low_conf_fields) : low_conf_fields[j].priority = "P0"})
        p1_count == Cardinality({j \in 1..Len(low_conf_fields) : low_conf_fields[j].priority = "P1"})
    IN  \* p1_rate = p1_count / len(rows) > 0.2
        IF p0_count > 0 \/ (Len(rows) > 0 /\ 5 * p1_count > Len(rows))
        THEN low_conf_fields ELSE << >>

MissingDate(rows) ==
    SortedFrom({i \in 0..(Len(rows) - 1) : rows[i + 1].transaction_date = NoDate}, 0, Len(rows) - 1)
MissingAmount(rows) ==
    SortedFrom({i \in 0..(Len(rows) - 1) : IsNone(rows[i + 1].deposit) /\ IsNone(rows[i + 1].withdrawal)},
               0, Len(rows) - 1)
MissingBalance(rows) ==
    SortedFrom({i \in 0..(Len(rows) - 1) : IsNone(rows[i + 1].balance)}, 0, Len(rows) - 1)

CoverageFields == {"transaction_date", "amount", "balance"}

MissingOf(rows, f) ==
    CASE f = "transaction_date" -> MissingDate(rows)
      [] f = "amount" -> MissingAmount(rows)
      [] OTHER -> MissingBalance(rows)

\* coverage 1 - missing/total as the exact fraction num/den
Coverage(rows, f) == [num |-> Len(rows) - Len(MissingOf(rows, f)), den |-> Len(rows)]

\* fraction < fixed-point value
FracLT(q, x) == q.num * 10000 < x * q.den

MissingExamples == 10

\* variant: a coverage equal to its threshold counts as below it
check_field_coverage_inclusive(result, config) ==
    LET rows == result.rows
        coverage == [f \in CoverageFields |-> Coverage(rows, f)]
        below == {f \in CoverageFields :
                     coverage[f].num * 10000
                         <= Get(config.field_coverage_thresholds, f, 0) * coverage[f].den}
    IN  IF rows = << >> \/ below = {} THEN << >>
        ELSE << [severity |-> IF \E f \in below : FracLT(coverage[f], 7000) THEN "HIGH" ELSE "MEDIUM",
                 action |-> "REVIEW_RECOMMENDED",
                 coverage |-> coverage,
                 missing_examples |->
                     [f \in CoverageFields |-> Prefix(MissingOf(rows, f), MissingExamples)]] >>

\* check_field_coverage; << >> stands for the empty dict
check_field_coverage(result, config) ==
    LET rows == result.rows
        coverage == [f \in CoverageFields |-> Coverage(rows, f)]
        below == {f \in CoverageFields :
                     FracLT(coverage[f], Get(config.field_coverage_thresholds, f, 0))}
    IN  IF rows = << >> \/ below = {} THEN << >>
        ELSE << [severity |-> IF \E f \in below : FracLT(coverage[f], 7000) THEN "HIGH" ELSE "MEDIUM",
                 action |-> "REVIEW_RECOMMENDED",
                 coverage |-> coverage,
                 missing_examples |->
                     [f \in CoverageFields |-> Prefix(MissingOf(rows, f), MissingExamples)]] >>

MissingCount(row) ==
    (IF row.transaction_date = NoDate THEN 1 ELSE 0)
    + (IF IsNone(row.balance) THEN 1 ELSE 0)
    + (IF IsNone(row.deposit) /\ IsNone(row.withdrawal) THEN 1 ELSE 0)

check_structural_anomaly(result) ==
    LET rows == result.rows
        incomplete_rows ==
            SortedFrom({i \in 0..(Len(rows) - 1) : MissingCount(rows[i + 1]) >= 2}, 0, Len(rows) - 1)
        page_transitions ==
            SortedFrom({i \in 1..(Len(rows) - 1) : rows[i + 1].page_number # rows[i].page_number},
                       1, Len(rows) - 1)
    IN  IF Len(rows) < 3 THEN << >>
        ELSE (IF 10 * Len(incomplete_rows) > Len(rows)
              THEN << [type |-> "INCONSISTENT_ROWS", rows |-> Prefix(incomplete_rows, 10)] >>
              ELSE << >>)
             \o (IF ~ result.header_detected \/ result.header_confidence < 7000
                 THEN << [type |-> "HEADER_DETECTION_FAILURE",
                          header_confidence |-> result.header_confidence] >>
                 ELSE << >>)
             \o (IF result.page_count > 1 /\ Len(page_transitions) > 0
                 THEN << [type |-> "MULTI_PAGE_DOCUMENT", page_transitions |-> page_transitions] >>
                 ELSE << >>)

NegativeAt(rows, i) ==
    (IF ~ IsNone(rows[i].deposit) /\ DecLT(rows[i].deposit, DecZero)
     THEN << [type |-> "NEGATIVE_DEPOSIT", row |-> i - 1, value |-> rows[i].deposit] >> ELSE << >>)
    \o (IF ~ IsNone(rows[i].withdrawal) /\ DecLT(rows[i].withdrawal, DecZero)
        THEN << [type |-> "NEGATIVE_WITHDRAWAL", row |-> i - 1, value |-> rows[i].withdrawal] >> ELSE << >>)

\* quick_logic_check raises decimal.InvalidOperation when diff_rate is NaN
\* or a present deposit or withdrawal is NaN
quick_logic_check_raises(result) ==
    LET rows == result.rows IN
    \/ /\ ~ IsNone(result.opening_balance) /\ ~ IsNone(result.closing_balance)
       /\ rows # << >>
       /\ ~ DecIsZero(result.closing_balance)
       /\ IsNaN(DecAbs(DecSub(ExpectedClosing(result), result.closing_balance)))
    \/ \E i \in 1..Len(rows) :
          \/ ~ IsNone(rows[i].deposit) /\ DecCompareRaises(rows[i].deposit, DecZero)
          \/ ~ IsNone(rows[i].withdrawal) /\ DecCompareRaises(rows[i].withdrawal, DecZero)

quick_logic_check(result) ==
    LET rows == result.rows
        dates == {rows[i].transaction_date : i \in 1..Len(rows)} \ {NoDate}
        max_date == CHOOSE d \in dates : \A x \in dates : x <= d
        min_date == CHOOSE d \in dates : \A x \in dates : d <= x
        expected == ExpectedClosing(result)
        actual == result.closing_balance
    IN  (IF /\ ~ IsNone(result.opening_balance) /\ ~ IsNone(result.closing_balance)
            /\ rows # << >>
            /\ ~ DecIsZero(actual)
            \* diff_rate = |expected - actual| / |actual| > 0.1
            /\ 10 * Abs(Mills(expected) - Mills(actual)) > Abs(Mills(actual))
         THEN << [type |-> "BALANCE_MISMATCH", expected |-> expected, actual |-> actual] >>
         ELSE << >>)
        \o (IF dates # {} /\ max_date - min_date > 400
            THEN << [type |-> "DATE_RANGE_ANOMALY", span_days |-> max_date - min_date] >>
            ELSE << >>)
        \o Flatten([i \in 1..Len(rows) |-> NegativeAt(rows, i)])

\* kw.lower() for each keyword
KeywordsLower == [k \in 1..Len(known_banks) |-> LowerStr(known_banks[k])]

MentionsBank(text) ==
    LET text_lower == LowerStr(text)
    IN  \E k \in 1..Len(KeywordsLower) : Contains(text_lower, KeywordsLower[k])

\* template confidence: 0.9 body match, 0.85 header match, 0.3 unknown
detect_bank_template(result) ==
    LET rows == result.rows
        first == Prefix(rows, 5)
        used == SortedFrom({i \in 1..Len(first) : first[i].description # << >>}, 1, Len(first))
        text_sample == Join([j \in 1..Len(used) |-> first[used[j]].description])
    IN  IF rows = << >> THEN 0
        ELSE IF MentionsBank(text_sample) THEN 9000
        ELSE IF result.header # << >> /\ MentionsBank(Join(result.header)) THEN 8500
        ELSE 3000

\* variant: the toggles are ignored
trigger_enabled_always(config, key) == TRUE

\* self.config.trigger_rules.get(key, True)
trigger_enabled(config, key) == Get(config.trigger_rules, key, TRUE)

\* detect_signals has no handler: an exception of an enabled check leaves it
detect_signals_raises(result, config) ==
    /\ result.rows # << >>
    /\ trigger_enabled(config, "logic_failure")
    /\ quick_logic_check_raises(result)

\* variant: the five checks still run on a table without rows
detect_signals_no_short_circuit(result, config) ==
    (IF result.rows = << >>
     THEN << RiskSignal("NO_ROWS", "CRITICAL", "MANUAL_REVIEW", << >>) >>
     ELSE << >>)
    \o (
      LET low_conf_fields == check_low_confidence(result, config)
          coverage_issue == check_field_coverage(result, config)
          structural_issues == check_structural_anomaly(result)
          logic_errors == quick_logic_check(result)
          template_confidence == detect_bank_template(result)
      IN  (IF trigger_enabled(config, "low_confidence") /\ low_conf_fields # << >>
           THEN << RiskSignal("LOW_CONFIDENCE", "HIGH", "REVIEW_RECOMMENDED", low_conf_fields) >>
           ELSE << >>)
          \o (IF trigger_enabled(config, "low_coverage") /\ coverage_issue # << >>
              THEN << RiskSignal("LOW_FIELD_COVERAGE", coverage_issue[1].severity,
                                 coverage_issue[1].action, coverage_issue[1]) >>
              ELSE << >>)
          \o (IF trigger_enabled(config, "structural_anomaly") /\ structural_issues # << >>
              THEN << RiskSignal("STRUCTURAL_ANOMALY", "MEDIUM", "REVIEW_RECOMMENDED", structural_issues) >>
              ELSE << >>)
          \o (IF trigger_enabled(config, "logic_failure") /\ logic_errors # << >>
              THEN << RiskSignal("LOGIC_FAILURE", "CRITICAL", "MANUAL_REVIEW", logic_errors) >>
              ELSE << >>)
          \o (IF trigger_enabled(config, "unknown_template") /\ template_confidence < 7000
              THEN << RiskSignal("UNKNOWN_TEMPLATE", "MEDIUM", "REVIEW_RECOMMENDED", template_confidence) >>
              ELSE << >>))

detect_signals(result, config) ==
    IF result.rows = << >>
    THEN << RiskSignal("NO_ROWS", "CRITICAL", "MANUAL_REVIEW", << >>) >>
    ELSE
      LET low_conf_fields == check_low_confidence(result, config)
          coverage_issue == check_field_coverage(result, config)
          structural_issues == check_structural_anomaly(result)
          logic_errors == quick_logic_check(result)
          template_confidence == detect_bank_template(result)
      IN  (IF trigger_enabled(config, "low_confidence") /\ low_conf_fields # << >>
           THEN << RiskSignal("LOW_CONFIDENCE", "HIGH", "REVIEW_RECOMMENDED", low_conf_fields) >>
           ELSE << >>)
          \o (IF trigger_enabled(config, "low_coverage") /\ coverage_issue # << >>
              THEN << RiskSignal("LOW_FIELD_COVERAGE", coverage_issue[1].severity,
                                 coverage_issue[1].action, coverage_issue[1]) >>
              ELSE << >>)
          \o (IF trigger_enabled(config, "structural_anomaly") /\ structural_issues # << >>
              THEN << RiskSignal("STRUCTURAL_ANOMALY", "MEDIUM", "REVIEW_RECOMMENDED", structural_issues) >>
              ELSE << >>)
          \o (IF trigger_enabled(config, "logic_failure") /\ logic_errors # << >>
              THEN << RiskSignal("LOGIC_FAILURE", "CRITICAL", "MANUAL_REVIEW", logic_errors) >>
              ELSE << >>)
          \o (IF trigger_enabled(config, "unknown_template") /\ template_confidence < 7000
              THEN << RiskSignal("UNKNOWN_TEMPLATE", "MEDIUM", "REVIEW_RECOMMENDED", template_confidence) >>
              ELSE << >>)

SeverityCount(signals, sev) == Cardinality({i \in 1..Len(signals) : signals[i].severity = sev})

\* RiskSignals.to_dict
RiskSignalsToDict(signals) ==
    [total_signals |-> Len(signals),
     critical_count |-> SeverityCount(signals, "CRITICAL"),
     high_count |-> SeverityCount(signals, "HIGH"),
     medium_count |-> SeverityCount(signals, "MEDIUM"),
     low_count |-> SeverityCount(signals, "LOW"),
     signals |-> signals]

\* ------------------------------------------------------ validation report
\* ValidationReport(document_id, 'APPROVED', risk_signals) with dataclass defaults
NewReport(risk_signals) ==
    [validation_status |-> "APPROVED", risk_signals |-> risk_signals,
     rule_violations |-> << >>, total_checks |-> 0, passed_checks |-> 0,
     failed_checks |-> 0, warnings |-> 0, rule_pass_rate |-> 0,
     overall_confidence |-> 0, confidence_label |-> "Low",
     confidence_components |-> << >>, pattern_matches |-> << >>]

add_violations(report, vs) ==
    [report EXCEPT !.rule_violations = @ \o vs, !.failed_checks = @ + Len(vs)]

HasSeverity(vs, sev) == \E i \in 1..Len(vs) : vs[i].severity = sev

\* variant: the HIGH / 10% test is made before the CRITICAL test
calculate_summary_high_first(report) ==
    LET minimum_total == report.passed_checks + report.failed_checks
        total == IF report.total_checks = 0 THEN minimum_total
                 ELSE IF report.total_checks < minimum_total THEN minimum_total
                 ELSE report.total_checks
        status == IF HasSeverity(report.rule_violations, "HIGH")
                     \/ 10 * report.failed_checks > total
                  THEN "REVIEW_RECOMMENDED"
                  ELSE IF HasSeverity(report.rule_violations, "CRITICAL") THEN "NEEDS_REVIEW"
                  ELSE "APPROVED"
        rate == IF total > 0 THEN (report.passed_checks * 10000) \div total ELSE 0
    IN  [report EXCEPT
            !.total_checks = total,
            !.validation_status = status,
            !.rule_pass_rate = rate,
            !.overall_confidence = IF total > 0 /\ @ = 0 THEN rate ELSE @]

calculate_summary(report) ==
    LET minimum_total == report.passed_checks + report.failed_checks
        total == IF report.total_checks = 0 THEN minimum_total
                 ELSE IF report.total_checks < minimum_total THEN minimum_total
                 ELSE report.total_checks
        status == IF HasSeverity(report.rule_violations, "CRITICAL") THEN "NEEDS_REVIEW"
                  \* failed_checks > total_checks * 0.1
                  ELSE IF HasSeverity(report.rule_violations, "HIGH")
                          \/ 10 * report.failed_checks > total
                       THEN "REVIEW_RECOMMENDED"
                  ELSE "APPROVED"
        rate == IF total > 0 THEN (report.passed_checks * 10000) \div total ELSE 0
    IN  [report EXCEPT
            !.total_checks = total,
            !.validation_status = status,
            !.rule_pass_rate = rate,
            !.overall_confidence = IF total > 0 /\ @ = 0 THEN rate ELSE @]

\* ------------------------------------------------------ confidence scorer
None == << >>
Some(x) == << x >>

_component(key, score, weight) ==
    [key |-> key, score |-> score, weight |-> weight, available |-> score # None]

\* variant: the weighted average is returned without clamping

\* variant: a component counts whatever its weight is
usable_components_any_weight(components) ==
    {i \in 1..Len(components) : components[i].available}

\* usable = [c for c in components if c['available'] and c['weight'] > 0]
usable_components(components) ==
    {i \in 1..Len(components) : components[i].available /\ components[i].weight > 0}

\* variant: the weighted average is returned without clamping

_weighted_score_unclamped(components) ==
    LET usable == usable_components(components)
        total_weight == SumSeq([j \in 1..Len(components) |->
                            IF j \in usable THEN components[j].weight ELSE 0])
        weighted == SumSeq([j \in 1..Len(components) |->
                            IF j \in usable THEN components[j].score[1] * components[j].weight ELSE 0])
    IN  IF total_weight <= 0 THEN 0
        ELSE weighted \div total_weight

_weighted_score(components) ==
    LET usable == usable_components(components)
        total_weight == SumSeq([j \in 1..Len(components) |->
                            IF j \in usable THEN components[j].weight ELSE 0])
        weighted == SumSeq([j \in 1..Len(components) |->
                            IF j \in usable THEN components[j].score[1] * components[j].weight ELSE 0])
    IN  IF total_weight <= 0 THEN 0
        ELSE Max(0, Min(10000, weighted \div total_weight))

\* variant: the High boundary is exclusive
_label_exclusive(score) ==
    IF score > 8500 THEN "High"
    ELSE IF score >= 7000 THEN "Medium"
    ELSE "Low"

_label(score) ==
    IF score >= 8500 THEN "High"
    ELSE IF score >= 7000 THEN "Medium"
    ELSE "Low"

RowConfidences(row) ==
    (IF row.date_confidence # 0 THEN << row.date_confidence >> ELSE << >>)
    \o (IF row.amount_confidence # 0 THEN << row.amount_confidence >> ELSE << >>)
    \o (IF row.balance_confidence # 0 THEN << row.balance_confidence >> ELSE << >>)

_engine_confidence(result) ==
    LET confidences == Flatten([i \in 1..Len(result.rows) |-> RowConfidences(result.rows[i])])
    IN  IF result.overall_confidence > 0 THEN result.overall_confidence
        ELSE IF confidences = << >> THEN 0
        ELSE SumSeq(confidences) \div Len(confidences)

\* variant: an empty table counts as complete
_field_completeness_vacuous(result) ==
    LET rows == result.rows
        n == Len(rows)
        cov(f) == ((n - Len(MissingOf(rows, f))) * 10000) \div n
    IN  IF n = 0 THEN 10000
        ELSE (cov("transaction_date") + cov("amount") + cov("balance")) \div 3

_field_completeness(result) ==
    LET rows == result.rows
        n == Len(rows)
        cov(f) == ((n - Len(MissingOf(rows, f))) * 10000) \div n
    IN  IF n = 0 THEN 0
        ELSE (cov("transaction_date") + cov("amount") + cov("balance")) \div 3

_risk_signal_score(risk_signals) ==
    LET penalty == risk_signals.critical_count * 2000 + risk_signals.high_count * 1000
                   + risk_signals.medium_count * 500 + risk_signals.low_count * 200
    IN  Max(0, 10000 - Min(10000, penalty))

\* ConfidenceScorer.__init__: dict(config.confidence_weights or {})
ScorerWeights(config) == config.confidence_weights

assess(primary, report, config) ==
    LET weights == ScorerWeights(config)
        components ==
            << _component("engine_quality", Some(_engine_confidence(primary)),
                          Get(weights, "engine_quality", 2500)),
               _component("field_completeness", Some(_field_completeness(primary)),
                          Get(weights, "field_completeness", 2000)),
               _component("rule_consistency", Some(report.rule_pass_rate),
                          Get(weights, "rule_consistency", 2500)),
               _component("risk_signals", Some(_risk_signal_score(report.risk_signals)),
                          Get(weights, "risk_signals", 1000)) >>
        overall_score == _weighted_score(components)
    IN  [score |-> overall_score, label |-> _label(overall_score), components |-> components]

\* --------------------------------------------------- error pattern matcher
ErrorPattern(name, description, severity, field, pattern_type, pattern_value, fix_suggestion) ==
    [name |-> name, description |-> description, severity |-> severity, field |-> field,
     pattern_type |-> pattern_type, pattern_value |-> pattern_value,
     fix_suggestion |-> fix_suggestion]

_get_default_patterns ==
    << ErrorPattern("bracket_negative_misread",
                    "Bracketed negative number possibly misread as positive",
                    "HIGH", "amount_raw", "format_check", "has_parentheses",
                    "Verify amount is negative"),
       ErrorPattern("dollar_sign_missing", "Amount missing dollar sign",
                    "MEDIUM", "amount_raw", "format_check", "missing_dollar_sign",
                    "Verify amount parsing"),
       ErrorPattern("comma_decimal_confusion", "Comma possibly misread as decimal point",
                    "HIGH", "amount_raw", "format_check", "has_comma_as_decimal",
                    "Check if European format (1.234,56)"),
       ErrorPattern("date_ambiguity", "Date format ambiguous (MM/DD vs DD/MM)",
                    "MEDIUM", "date_raw", "format_check", "ambiguous_date",
                    "Verify month/day order"),
       ErrorPattern("zero_o_confusion", "Letter O possibly confused with zero",
                    "HIGH", "amount_raw", "format_check", "has_letter_o",
                    "Check if O should be 0"),
       ErrorPattern("one_l_confusion", "Letter l possibly confused with 1",
                    "HIGH", "amount_raw", "format_check", "has_letter_l",
                    "Check if l should be 1"),
       ErrorPattern("negative_deposit", "Deposit amount is negative",
                    "CRITICAL", "amount", "value_check", "negative",
                    "Deposits should be positive") >>

\* field values are tagged: t = "none" is None, "str" a string, "dec" a Decimal, "date" a date
NoValue == [t |-> "none", v |-> << >>]

_get_field_value(row, field) ==
    CASE field = "amount" ->
            IF ~ IsNone(row.deposit) THEN [t |-> "dec", v |-> row.deposit]
            ELSE IF ~ IsNone(row.withdrawal) THEN [t |-> "dec", v |-> row.withdrawal]
            ELSE NoValue
      [] field = "amount_raw" -> [t |-> "str", v |-> row.amount_raw]
      [] field = "date" ->
            IF row.transaction_date # NoDate THEN [t |-> "date", v |-> row.transaction_date]
            ELSE NoValue
      [] field = "date_raw" -> [t |-> "str", v |-> row.date_raw]
      [] field = "description" -> [t |-> "str", v |-> row.description]
      [] field = "balance" ->
            IF ~ IsNone(row.balance) THEN [t |-> "dec", v |-> row.balance] ELSE NoValue
      [] OTHER -> NoValue

Digits == {"0", "1", "2", "3", "4", "5", "6", "7", "8", "9"}
AllDigits(v) == \A i \in 1..Len(v) : v[i] \in Digits

\* re.match(r'^\d{1,2}/\d{1,2}/\d{4}$', v)
AmbiguousDate(v) ==
    \E a \in 1..2, b \in 1..2 :
        /\ Len(v) = a + b + 6
        /\ AllDigits(SubSeq(v, 1, a))
        /\ v[a + 1] = "/"
        /\ AllDigits(SubSeq(v, a + 2, a + b + 1))
        /\ v[a + b + 2] = "/"
        /\ AllDigits(SubSeq(v, a + b + 3, a + b + 6))

\* variant: the comma test forgets the decimal point
_check_format_comma_only(value, format_type) ==
    CASE format_type = "has_parentheses" -> HasChar(value, "(") /\ HasChar(value, ")")
      [] format_type = "missing_dollar_sign" -> ~ HasChar(value, "$")
      [] format_type = "has_comma_as_decimal" -> HasChar(value, ",")
      [] format_type = "ambiguous_date" -> AmbiguousDate(value)
      [] format_type = "has_letter_o" -> HasChar(value, "O") \/ HasChar(value, "o")
      [] format_type = "has_letter_l" -> HasChar(value, "l") \/ HasChar(value, "L")
      [] OTHER -> FALSE

_check_format(value, format_type) ==
    CASE format_type = "has_parentheses" -> HasChar(value, "(") /\ HasChar(value, ")")
      [] format_type = "missing_dollar_sign" -> ~ HasChar(value, "$")
      [] format_type = "has_comma_as_decimal" -> HasChar(value, ",") /\ ~ HasChar(value, ".")
      [] format_type = "ambiguous_date" -> AmbiguousDate(value)
      [] format_type = "has_letter_o" -> HasChar(value, "O") \/ HasChar(value, "o")
      [] format_type = "has_letter_l" -> HasChar(value, "l") \/ HasChar(value, "L")
      [] OTHER -> FALSE

\* value < 0 signals InvalidOperation for a NaN
_check_value_raises(value, check_type) ==
    check_type = "negative" /\ value.t = "dec" /\ DecCompareRaises(value.v, DecZero)

_check_value(value, check_type) ==
    IF check_type = "negative"
    THEN value.t = "dec" /\ DecLT(value.v, DecZero)
    ELSE FALSE

PatternMatch(pattern, row_idx, value) ==
    [pattern_name |-> pattern.name, row |-> row_idx, field |-> pattern.field,
     value |-> value, severity |-> pattern.severity]

\* the catalog's format_check patterns target text fields; regex payloads are
\* literal texts, for which re.search is substring search
_match_pattern(pattern, row, row_idx) ==
    LET field_value == _get_field_value(row, pattern.field)
        is_match ==
            CASE pattern.pattern_type = "regex" ->
                    field_value.t = "str" /\ Contains(field_value.v, pattern.pattern_value)
              [] pattern.pattern_type = "format_check" ->
                    field_value.t = "str" /\ _check_format(field_value.v, pattern.pattern_value)
              [] pattern.pattern_type = "value_check" ->
                    _check_value(field_value, pattern.pattern_value)
              [] OTHER -> FALSE
    IN  IF field_value.t = "none" THEN << >>
        ELSE IF is_match THEN << PatternMatch(pattern, row_idx, field_value) >>
        ELSE << >>

_match_pattern_raises(pattern, row) ==
    LET field_value == _get_field_value(row, pattern.field)
    IN  /\ field_value.t # "none"
        /\ pattern.pattern_type = "value_check"
        /\ _check_value_raises(field_value, pattern.pattern_value)

match_raises(result, catalog) ==
    \E i \in 1..Len(result.rows), k \in 1..Len(catalog) :
        _match_pattern_raises(catalog[k], result.rows[i])

\* variant: the matches carry 1-based row numbers
match_one_based(result, patterns) ==
    Flatten([i \in 1..Len(result.rows) |->
        Flatten([k \in 1..Len(patterns) |-> _match_pattern(patterns[k], result.rows[i], i)])])

match(result, patterns) ==
    Flatten([i \in 1..Len(result.rows) |->
        Flatten([k \in 1..Len(patterns) |-> _match_pattern(patterns[k], result.rows[i], i - 1)])])

\* ------------------------------------------------- the catalog's backing file
\* the file is missing, holds a JSON catalog ("ok") or holds something that
\* json.load or ErrorPattern.from_dict rejects ("corrupt"); size is the
\* length of its contents, counted in pattern entries (the learned patterns
\* have names of equal length)
FileMissing == [state |-> "missing", patterns |-> << >>, size |-> 0]
FileCorrupt == [state |-> "corrupt", patterns |-> << >>, size |-> 0]
FileOk(ps) == [state |-> "ok", patterns |-> ps, size |-> Len(ps)]

\* open(pattern_path, 'w') truncates the file; an empty file is not JSON
open_w(file) == FileCorrupt

\* json.dump(data, f) through a handle opened at offset 0, then close: bytes
\* that another handle wrote beyond the end of data stay in the file
json_dump(file, data) ==
    IF Len(data) >= file.size THEN FileOk(data)
    ELSE [state |-> "corrupt", patterns |-> << >>, size |-> file.size]

\* the fields of the ErrorPattern dataclass
PatternFields ==
    {"name", "description", "severity", "field", "pattern_type", "pattern_value",
     "fix_suggestion"}

\* variant: the fix suggestion is not written
to_dict_without_fix_suggestion(p) == [k \in PatternFields \ {"fix_suggestion"} |-> p[k]]

\* ErrorPattern.to_dict: asdict(self)
to_dict(p) == [k \in PatternFields |-> p[k]]

\* [p.to_dict() for p in self.patterns]
to_dicts(ps) == [i \in 1..Len(ps) |-> to_dict(ps[i])]

\* ErrorPattern.from_dict: cls(**data) is a TypeError when a field is missing
\* or a key is not a field
from_dict_raises(data) == DOMAIN data # PatternFields

from_dict(data) ==
    ErrorPattern(data.name, data.description, data.severity, data.field,
                 data.pattern_type, data.pattern_value, data.fix_suggestion)

\* save_patterns without interruption
save_patterns(file, ps) == json_dump(open_w(file), to_dicts(ps))

\* load_patterns: the catalog in memory and the file afterwards
load_patterns(file) ==
    IF file.state = "ok" /\ \A j \in 1..Len(file.patterns) : ~ from_dict_raises(file.patterns[j])
    THEN [patterns |-> [j \in 1..Len(file.patterns) |-> from_dict(file.patterns[j])],
          file |-> file]
    ELSE IF file.state # "missing" THEN [patterns |-> _get_default_patterns, file |-> file]
    ELSE [patterns |-> _get_default_patterns,
          file |-> save_patterns(file, _get_default_patterns)]

\* add_pattern without interruption: the patterns and the file afterwards
add_pattern(ps, file, pattern) ==
    [patterns |-> Append(ps, pattern), file |-> save_patterns(file, Append(ps, pattern))]

\* ------------------------------------------------------- feedback loop
\* str.replace(old, new) for one-character old and new
Replace(v, old, new) == [i \in 1..Len(v) |-> IF v[i] = old THEN new ELSE v[i]]

_categorize_error(incorrect, correct) ==
    IF HasChar(incorrect, "(") \/ HasChar(incorrect, ")") THEN "bracket_issue"
    ELSE IF Replace(incorrect, "O", "0") = correct THEN "o_zero_confusion"
    ELSE IF Replace(incorrect, "l", "1") = correct THEN "l_one_confusion"
    ELSE "other"

_analyze_error(incorrect, correct, field) ==
    [field |-> field, incorrect |-> incorrect, correct |-> correct,
     error_category |-> _categorize_error(incorrect, correct)]

\* any(category in p.name for p in self.pattern_db.patterns)
_has_similar_pattern(error_type, ps) ==
    \E k \in 1..Len(ps) : Contains(ps[k].name, error_type.error_category)

\* variant: a pattern is synthesized from the correction
_create_pattern_from_error_synthesizes(error_type, description) ==
    Some(ErrorPattern(error_type.error_category, description, "MEDIUM", error_type.field,
                      "regex", error_type.incorrect, "Compare with the correction"))

\* the placeholder returns None
_create_pattern_from_error(error_type, description) == None

\* process_correction on a database with the patterns ps: the patterns and the
\* file afterwards
process_correction(ps, file, field, incorrect_value, correct_value, description) ==
    LET error_type == _analyze_error(incorrect_value, correct_value, field)
        new_pattern == _create_pattern_from_error(error_type, description)
    IN  IF ~ _has_similar_pattern(error_type, ps) /\ new_pattern # None
        THEN add_pattern(ps, file, new_pattern[1])
        ELSE [patterns |-> ps, file |-> file]

\* ------------------------------------------------------------ extraction
\* a balance found in the document text: found = FALSE when the regex has no match
NoMatch == [found |-> FALSE, amount |-> NoneDec]
Matched(d) == [found |-> TRUE, amount |-> d]

_extract_balances(result, opening_match, closing_match) ==
    LET n == Len(result.rows) IN
    [result EXCEPT
        !.opening_balance = IF opening_match.found THEN opening_match.amount
                            ELSE IF n > 0 THEN result.rows[1].balance ELSE @,
        !.closing_balance = IF closing_match.found THEN closing_match.amount
                            ELSE IF n > 0 THEN result.rows[n].balance ELSE @]

\* ------------------------------------------------------------ the state
VARIABLES
    table,       \* the OCRResult under validation
    config,      \* ValidationConfig
    patterns,    \* ErrorPatternDatabase.patterns
    today,       \* date.today()
    pc,          \* position of the run
    run,         \* number of the run on this table
    signals,     \* RiskSignals.signals of the run
    violations,  \* rule violations of the run
    matches,     \* pattern matches of the run
    report,      \* the ValidationReport of the run
    prev,        \* outputs of the previous run on the same table
    score_in,    \* argument of _label
    label_out,   \* result of _label
    pattern_file,\* the backing file of the pattern catalog
    dbs,         \* the ErrorPatternDatabase instances
    writers      \* the callers of add_pattern

vars == << table, config, patterns, today, pc, run, signals, violations, matches,
           report, prev, score_in, label_out, pattern_file, dbs, writers >>

NoOutputs == [signals |-> << >>, violations |-> << >>, matches |-> << >>,
              report |-> NewReport(RiskSignalsToDict(<< >>))]

Outputs == [signals |-> signals, violations |-> violations, matches |-> matches,
            report |-> report]

\* ErrorPatternDatabase instance before __init__ ran
NewDb == [loaded |-> FALSE, patterns |-> << >>]
\* a caller of add_pattern that has not called yet
IdleWriter == [pc |-> "idle", data |-> << >>]

MaxWriters == 3
Writers == 1..MaxWriters
\* the instance a caller uses: callers 1 and 3 share one instance
InstanceOf(w) == (w % 2) + 1
Instances == {InstanceOf(w) : w \in Writers}

\* the state of a fresh pipeline given its inputs
Start(t, c, r, s) ==
    /\ pattern_file = FileOk(to_dicts(_get_default_patterns))
    /\ dbs = [i \in Instances |-> NewDb]
    /\ writers = [w \in Writers |-> IdleWriter]
    /\ table = t
    /\ config = c
    /\ patterns = _get_default_patterns
    /\ today = 1
    /\ run = 1
    /\ signals = << >>
    /\ violations = << >>
    /\ matches = << >>
    /\ report = r
    /\ prev = NoOutputs
    /\ score_in = s
    /\ label_out = "Low"

\* the state before any document is processed
Idle == Start(EmptyTable, ValidationConfig, NewReport(RiskSignalsToDict(<< >>)), 0)

\* ---------------------------------------------------- the orchestrator
PipelineDates == {NoDate, 1, 2}
\* deposit, withdrawal, balance
PipelineAmounts ==
    { <<NoneDec, NoneDec, NoneDec>>,
      <<Dec(5000, -2), NoneDec, NoneDec>>,
      <<Dec(5000, -2), NoneDec, Dec(5000, -2)>>,
      <<Dec(5000, -2), Dec(2000, -2), Dec(8000, -2)>> }
PipelineRows == {Row(d, a[1], a[2], a[3]) : d \in PipelineDates, a \in PipelineAmounts}
OpeningTexts == {NoMatch, Matched(Dec(0, -2))}
ClosingTexts == {NoMatch, Matched(Dec(8000, -2))}
PageQualities == {0, 9500}

Init == Idle /\ pc = "extract"

\* _parse_table / _extract_data: one more transaction row is extracted
AddRow ==
    /\ pc = "extract"
    /\ Len(table.rows) < MaxRows
    /\ \E r \in PipelineRows : table' = [table EXCEPT !.rows = Append(@, r)]
    /\ UNCHANGED << config, patterns, today, pc, run, signals, violations, matches,
                    report, prev, score_in, label_out,
                    pattern_file, dbs, writers >>

\* _extract_data builds the OCRResult and _extract_balances completes it
FinishExtract ==
    /\ pc = "extract"
    /\ \E o \in OpeningTexts, c \in ClosingTexts, q \in PageQualities :
          table' = _extract_balances([table EXCEPT !.overall_confidence = q], o, c)
    /\ pc' = "risk"
    /\ UNCHANGED << config, patterns, today, run, signals, violations, matches,
                    report, prev, score_in, label_out,
                    pattern_file, dbs, writers >>

\* process, step 2: risk signal detection
DetectStep ==
    /\ pc = "risk"
    /\ signals' = detect_signals(table, config)
    /\ pc' = "rules"
    /\ UNCHANGED << table, config, patterns, today, run, violations, matches,
                    report, prev, score_in, label_out,
                    pattern_file, dbs, writers >>

\* process, step 3: hard rules validation
ValidateStep ==
    /\ pc = "rules"
    /\ violations' = validate(table, today)
    /\ pc' = "patterns"
    /\ UNCHANGED << table, config, patterns, today, run, signals, matches,
                    report, prev, score_in, label_out,
                    pattern_file, dbs, writers >>

\* process: error pattern matching
MatchStep ==
    /\ pc = "patterns"
    /\ matches' = match(table, patterns)
    /\ pc' = "report"
    /\ UNCHANGED << table, config, patterns, today, run, signals, violations,
                    report, prev, score_in, label_out,
                    pattern_file, dbs, writers >>

\* variant: every pattern match also counts as a failed check
record_warnings_as_failures(rep, ms) ==
    [rep EXCEPT !.warnings = Len(ms), !.pattern_matches = ms, !.failed_checks = @ + Len(ms)]

\* process: the pattern matches are recorded as warnings
record_warnings(rep, ms) ==
    [rep EXCEPT !.warnings = Len(ms), !.pattern_matches = ms]

\* variant: the violations are added after the summary was calculated
BuildReport_late_violations(result, sigs, vs, ms) ==
    LET r0 == NewReport(RiskSignalsToDict(sigs))
        r1 == record_warnings(r0, ms)
        r2 == [r1 EXCEPT !.total_checks = count_checks(result)]
        r3 == [r2 EXCEPT !.passed_checks = Max(r2.total_checks - r2.failed_checks, 0)]
    IN  add_violations(calculate_summary(r3), vs)

\* process, step 5: the report, its counts and calculate_summary
BuildReport(result, sigs, vs, ms) ==
    LET r0 == add_violations(NewReport(RiskSignalsToDict(sigs)), vs)
        r1 == record_warnings(r0, ms)
        r2 == [r1 EXCEPT !.total_checks = count_checks(result)]
        r3 == [r2 EXCEPT !.passed_checks = Max(r2.total_checks - r2.failed_checks, 0)]
    IN  calculate_summary(r3)


\* variant: a CRITICAL risk signal makes the status NEEDS_REVIEW
SummarizeStep_escalating ==
    /\ pc = "report"
    /\ LET rep == BuildReport(table, signals, violations, matches)
       IN  report' = IF rep.risk_signals.critical_count > 0
                     THEN [rep EXCEPT !.validation_status = "NEEDS_REVIEW"]
                     ELSE rep
    /\ pc' = "score"
    /\ UNCHANGED << table, config, patterns, today, run, signals, violations, matches,
                    prev, score_in, label_out,
                    pattern_file, dbs, writers >>

SummarizeStep ==
    /\ pc = "report"
    /\ report' = BuildReport(table, signals, violations, matches)
    /\ pc' = "score"
    /\ UNCHANGED << table, config, patterns, today, run, signals, violations, matches,
                    prev, score_in, label_out,
                    pattern_file, dbs, writers >>

\* variant: a baseline confidence already in the report is kept
AttachConfidence_keeps_baseline(rep, confidence) ==
    [rep EXCEPT !.overall_confidence = IF @ # 0 THEN @ ELSE confidence.score,
                !.confidence_label = confidence.label,
                !.confidence_components = confidence.components]

\* process: the scorer's output is attached to the report
AttachConfidence(rep, confidence) ==
    [rep EXCEPT !.overall_confidence = confidence.score,
                !.confidence_label = confidence.label,
                !.confidence_components = confidence.components]

AssessStep ==
    /\ pc = "score"
    /\ report' = AttachConfidence(report, assess(table, report, config))
    /\ pc' = "done"
    /\ UNCHANGED << table, config, patterns, today, run, signals, violations, matches,
                    prev, score_in, label_out,
                    pattern_file, dbs, writers >>

\* the analyzers are run once more on the same table
Rerun ==
    /\ pc = "done"
    /\ run = 1
    /\ prev' = Outputs
    /\ run' = 2
    /\ pc' = "risk"
    /\ UNCHANGED << table, config, patterns, today, signals, violations, matches,
                    report, score_in, label_out,
                    pattern_file, dbs, writers >>

\* the calendar day changes
Tick ==
    /\ today < MaxToday
    /\ today' = today + 1
    /\ UNCHANGED << table, config, patterns, pc, run, signals, violations, matches,
                    report, prev, score_in, label_out,
                    pattern_file, dbs, writers >>

Next ==
    \/ AddRow
    \/ FinishExtract
    \/ DetectStep
    \/ ValidateStep
    \/ MatchStep
    \/ SummarizeStep
    \/ AssessStep
    \/ Rerun
    \/ Tick

Spec == Init /\ [][Next]_vars

\* ------------------------------------------- the hard rules on their own
MaxRuleRows == 2
RuleDeposits == {NoneDec, Dec(0, -2), Dec(5000, -2)}
RuleWithdrawals == {NoneDec, Dec(0, -2), Dec(2000, -2)}
RuleBalances == {NoneDec, Dec(10000, -2), Dec(14997, -2), Dec(15000, -2), Dec(15001, -2),
                 Dec(15002, -2), Dec(15003, -2)}
RuleRows == {Row(1, d, w, b) : d \in RuleDeposits, w \in RuleWithdrawals, b \in RuleBalances}

InitRules == Idle /\ pc = "rows"

AddRuleRow ==
    /\ pc = "rows"
    /\ Len(table.rows) < MaxRuleRows
    /\ \E r \in RuleRows : table' = [table EXCEPT !.rows = Append(@, r)]
    /\ UNCHANGED << config, patterns, today, pc, run, signals, violations, matches,
                    report, prev, score_in, label_out,
                    pattern_file, dbs, writers >>

\* HardRulesValidator.validate(result)
RunValidate ==
    /\ pc = "rows"
    /\ violations' = validate(table, today)
    /\ pc' = "validated"
    /\ UNCHANGED << table, config, patterns, today, run, signals, matches,
                    report, prev, score_in, label_out,
                    pattern_file, dbs, writers >>

NextRules == AddRuleRow \/ RunValidate

SpecRules == InitRules /\ [][NextRules]_vars

\* -------------------------------------- the risk detector on its own
MaxBareRows == 2
DatedRows ==
    { Row(1, Dec(5000, -2), NoneDec, Dec(5000, -2)),
      Row(NoDate, Dec(5000, -2), NoneDec, Dec(5000, -2)) }
BareRow == Row(1, NoneDec, NoneDec, NoneDec)
\* rows that may follow: at most MaxBareRows rows lack amount and balance
CoverageRows(rows) ==
    IF Cardinality({i \in 1..Len(rows) : rows[i] = BareRow}) < MaxBareRows
    THEN DatedRows \cup {BareRow} ELSE DatedRows

InitCoverage == Idle /\ pc = "rows"

AddCoverageRow ==
    /\ pc = "rows"
    /\ Len(table.rows) < MaxCovRows
    /\ \E r \in CoverageRows(table.rows) : table' = [table EXCEPT !.rows = Append(@, r)]
    /\ UNCHANGED << config, patterns, today, pc, run, signals, violations, matches,
                    report, prev, score_in, label_out,
                    pattern_file, dbs, writers >>

\* RiskSignalDetector.detect_signals(result)
RunDetect ==
    /\ pc = "rows"
    /\ signals' = detect_signals(table, config)
    /\ pc' = "detected"
    /\ UNCHANGED << table, config, patterns, today, run, violations, matches,
                    report, prev, score_in, label_out,
                    pattern_file, dbs, writers >>

NextCoverage == AddCoverageRow \/ RunDetect

SpecCoverage == InitCoverage /\ [][NextCoverage]_vars

\* ------------------------------------- the pattern matcher on its own
MaxRawLen == 3
MaxMatchRows == 2
RawAlphabet == {"(", ")", ",", "."}
ShortRawTexts == UNION {[1..n -> RawAlphabet] : n \in 0..MaxRawLen}
RawTexts ==
    ShortRawTexts \cup { <<"(", "1", ",", "2", "0", "0", ".", "0", "0", ")">>,
                         <<"(", "1", "2", "0", "0", ".", "0", "0", ")">> }
RawRow(raw) == [Row(1, Dec(5000, -2), NoneDec, NoneDec) EXCEPT !.amount_raw = raw]

InitMatch == Idle /\ pc = "rows"

AddRawRow ==
    /\ pc = "rows"
    /\ Len(table.rows) < MaxMatchRows
    /\ \E raw \in RawTexts : table' = [table EXCEPT !.rows = Append(@, RawRow(raw))]
    /\ UNCHANGED << config, patterns, today, pc, run, signals, violations, matches,
                    report, prev, score_in, label_out,
                    pattern_file, dbs, writers >>

\* ErrorPatternDatabase.match(result)
RunMatch ==
    /\ pc = "rows"
    /\ matches' = match(table, patterns)
    /\ pc' = "matched"
    /\ UNCHANGED << table, config, patterns, today, run, signals, violations,
                    report, prev, score_in, label_out,
                    pattern_file, dbs, writers >>

NextMatch == AddRawRow \/ RunMatch

SpecMatch == InitMatch /\ [][NextMatch]_vars

\* ------------------------------------------ the scorer on its own
MaxCritical == 6
ScoreConfidences == {-5000, 0, 6000, 15000}
ScoreTables ==
    {[EmptyTable EXCEPT !.overall_confidence = q] : q \in ScoreConfidences}
    \cup {[EmptyTable EXCEPT !.overall_confidence = q,
                             !.rows = << [Row(d, NoneDec, NoneDec, b) EXCEPT !.date_confidence = c] >>] :
             q \in {-5000, 0}, c \in ScoreConfidences, d \in {NoDate, 1},
             b \in {NoneDec, Dec(5000, -2)}}
ScoreRates == {-2000, 0, 5000, 10000, 12000}
ScoreWeights == {-1000, 0, 3000}
ScoreKeys == {"engine_quality", "field_completeness", "rule_consistency", "risk_signals"}
ScoreWeightMaps == [ScoreKeys -> ScoreWeights] \cup {<< >>}
ScoreRiskSummaries ==
    {[RiskSignalsToDict(<< >>) EXCEPT !.critical_count = c, !.medium_count = m,
                                      !.total_signals = c + m] :
        c \in 0..MaxCritical, m \in 0..1}

InitScore ==
    /\ pc = "assess"
    /\ \E t \in ScoreTables, w \in ScoreWeightMaps, rate \in ScoreRates, rs \in ScoreRiskSummaries :
          Start(t, [ValidationConfig EXCEPT !.confidence_weights = w],
                [NewReport(rs) EXCEPT !.rule_pass_rate = rate], 0)

\* ConfidenceScorer.assess(primary, report) and the attachment of its output
RunAssess ==
    /\ pc = "assess"
    /\ report' = AttachConfidence(report, assess(table, report, config))
    /\ pc' = "assessed"
    /\ UNCHANGED << table, config, patterns, today, run, signals, violations, matches,
                    prev, score_in, label_out,
                    pattern_file, dbs, writers >>

NextScore == RunAssess

SpecScore == InitScore /\ [][NextScore]_vars

\* ------------------------------------------ the label on its own
MaxScore == 10000

InitLabel ==
    /\ pc = "label"
    /\ \E s \in 0..MaxScore :
          Start(EmptyTable, ValidationConfig, NewReport(RiskSignalsToDict(<< >>)), s)

\* ConfidenceScorer._label(score)
ApplyLabel ==
    /\ pc = "label"
    /\ label_out' = _label(score_in)
    /\ pc' = "labelled"
    /\ UNCHANGED << table, config, patterns, today, run, signals, violations, matches,
                    report, prev, score_in,
                    pattern_file, dbs, writers >>

NextLabel == ApplyLabel

SpecLabel == InitLabel /\ [][NextLabel]_vars

\* ------------------------------- the analyzers on malformed row data
MaxFaultRows == 2
\* rows with a missing date, missing, negative, over-precise, out-of-range
\* and non-finite amounts; every confidence is zero
FaultRows ==
    { Row(NoDate, NoneDec, NoneDec, NoneDec),
      Row(1, Dec(5000, -2), NoneDec, Dec(5000, -2)),
      Row(1, Dec(-500, -2), NoneDec, Dec(5000, -2)),
      Row(1, Dec(1, -3), NoneDec, Dec(5000, -2)),
      Row(1, Dec(5000, -2), NoneDec, Dec(150000000, -2)),
      Row(1, NaN, NoneDec, Dec(5000, -2)),
      Row(1, NoneDec, NaN, NoneDec),
      Row(1, Dec(5000, -2), NoneDec, NaN) }
\* opening and closing balance of the statement
FaultBalances ==
    { <<NoneDec, NoneDec>>, <<Dec(0, -2), Dec(5000, -2)>>, <<Dec(0, -2), NaN>> }

InitFaults == Idle /\ pc = "rows"

AddFaultRow ==
    /\ pc = "rows"
    /\ Len(table.rows) < MaxFaultRows
    /\ \E r \in FaultRows : table' = [table EXCEPT !.rows = Append(@, r)]
    /\ UNCHANGED << config, patterns, today, pc, run, signals, violations, matches,
                    report, prev, score_in, label_out,
                    pattern_file, dbs, writers >>

\* the extraction collaborator hands the table over
HandOver ==
    /\ pc = "rows"
    /\ \E b \in FaultBalances :
          table' = [table EXCEPT !.opening_balance = b[1], !.closing_balance = b[2]]
    /\ pc' = "ready"
    /\ UNCHANGED << config, patterns, today, run, signals, violations, matches,
                    report, prev, score_in, label_out,
                    pattern_file, dbs, writers >>

\* RiskSignalDetector.detect_signals(result): returns or raises
TryDetect ==
    /\ pc = "ready"
    /\ IF detect_signals_raises(table, config)
       THEN pc' = "raised" /\ UNCHANGED signals
       ELSE pc' = "returned" /\ signals' = detect_signals(table, config)
    /\ UNCHANGED << table, config, patterns, today, run, violations, matches,
                    report, prev, score_in, label_out,
                    pattern_file, dbs, writers >>

\* HardRulesValidator.validate(result): returns or raises
TryValidate ==
    /\ pc = "ready"
    /\ IF validate_raises(table)
       THEN pc' = "raised" /\ UNCHANGED violations
       ELSE pc' = "returned" /\ violations' = validate(table, today)
    /\ UNCHANGED << table, config, patterns, today, run, signals, matches,
                    report, prev, score_in, label_out,
                    pattern_file, dbs, writers >>

\* HardRulesValidator.count_checks(result) only tests fields for None
TryCount ==
    /\ pc = "ready"
    /\ report' = [report EXCEPT !.total_checks = count_checks(table)]
    /\ pc' = "returned"
    /\ UNCHANGED << table, config, patterns, today, run, signals, violations, matches,
                    prev, score_in, label_out,
                    pattern_file, dbs, writers >>

\* ErrorPatternDatabase.match(result): returns or raises
TryMatch ==
    /\ pc = "ready"
    /\ IF match_raises(table, patterns)
       THEN pc' = "raised" /\ UNCHANGED matches
       ELSE pc' = "returned" /\ matches' = match(table, patterns)
    /\ UNCHANGED << table, config, patterns, today, run, signals, violations,
                    report, prev, score_in, label_out,
                    pattern_file, dbs, writers >>

\* ConfidenceScorer.assess(primary, report) only tests fields for None
TryAssess ==
    /\ pc = "ready"
    /\ report' = AttachConfidence(report, assess(table, report, config))
    /\ pc' = "returned"
    /\ UNCHANGED << table, config, patterns, today, run, signals, violations, matches,
                    prev, score_in, label_out,
                    pattern_file, dbs, writers >>

NextFaults ==
    \/ AddFaultRow
    \/ HandOver
    \/ TryDetect
    \/ TryValidate
    \/ TryCount
    \/ TryMatch
    \/ TryAssess

SpecFaults == InitFaults /\ [][NextFaults]_vars

\* ------------------------------------------ the pattern catalog on its own
LearnedNames == << "learned_1", "learned_2", "learned_3", "learned_4" >>
\* the pattern that caller w adds
Learned(w) ==
    ErrorPattern(LearnedNames[w], "Tilde in the amount", "HIGH", "amount_raw", "regex", << "~" >>,
                 "Check the amount")
InitialFiles == {FileMissing, FileCorrupt, FileOk(to_dicts(_get_default_patterns))}

InitCatalog ==
    /\ pc = "catalog"
    /\ table = EmptyTable
    /\ config = ValidationConfig
    /\ patterns = _get_default_patterns
    /\ today = 1
    /\ run = 1
    /\ signals = << >>
    /\ violations = << >>
    /\ matches = << >>
    /\ report = NewReport(RiskSignalsToDict(<< >>))
    /\ prev = NoOutputs
    /\ score_in = 0
    /\ label_out = "Low"
    /\ pattern_file \in InitialFiles
    /\ dbs = [i \in Instances |-> NewDb]
    /\ writers = [w \in Writers |-> IdleWriter]

\* ErrorPatternDatabase.__init__: load_patterns
Construct(i) ==
    /\ ~ dbs[i].loaded
    /\ LET r == load_patterns(pattern_file)
       IN  /\ dbs' = [dbs EXCEPT ![i] = [loaded |-> TRUE, patterns |-> r.patterns]]
           /\ pattern_file' = r.file
    /\ UNCHANGED << table, config, patterns, today, pc, run, signals, violations, matches,
                    report, prev, score_in, label_out, writers >>

\* add_pattern: self.patterns.append(pattern)
AddAppend(w) ==
    /\ writers[w].pc = "idle"
    /\ dbs[InstanceOf(w)].loaded
    /\ dbs' = [dbs EXCEPT ![InstanceOf(w)].patterns = Append(@, Learned(w))]
    /\ writers' = [writers EXCEPT ![w].pc = "appended"]
    /\ UNCHANGED << table, config, patterns, today, pc, run, signals, violations, matches,
                    report, prev, score_in, label_out, pattern_file >>

\* save_patterns: data = {'patterns': [p.to_dict() for p in self.patterns], ...}
SaveSnapshot(w) ==
    /\ writers[w].pc = "appended"
    /\ writers' = [writers EXCEPT ![w] = [pc |-> "snapshot",
                                          data |-> to_dicts(dbs[InstanceOf(w)].patterns)]]
    /\ UNCHANGED << table, config, patterns, today, pc, run, signals, violations, matches,
                    report, prev, score_in, label_out, pattern_file, dbs >>

\* save_patterns: open(pattern_path, 'w')
SaveOpen(w) ==
    /\ writers[w].pc = "snapshot"
    /\ pattern_file' = open_w(pattern_file)
    /\ writers' = [writers EXCEPT ![w].pc = "opened"]
    /\ UNCHANGED << table, config, patterns, today, pc, run, signals, violations, matches,
                    report, prev, score_in, label_out, dbs >>

\* save_patterns: json.dump(data, f) and the end of the with block
SaveWrite(w) ==
    /\ writers[w].pc = "opened"
    /\ pattern_file' = json_dump(pattern_file, writers[w].data)
    /\ writers' = [writers EXCEPT ![w].pc = "done"]
    /\ UNCHANGED << table, config, patterns, today, pc, run, signals, violations, matches,
                    report, prev, score_in, label_out, dbs >>

NextCatalog ==
    \/ \E i \in Instances : Construct(i)
    \/ \E w \in Writers : AddAppend(w)
    \/ \E w \in Writers : SaveSnapshot(w)
    \/ \E w \in Writers : SaveOpen(w)
    \/ \E w \in Writers : SaveWrite(w)

SpecCatalog == InitCatalog /\ [][NextCatalog]_vars

\* ------------------------------- two runs that differ in the catalog
MaxAdvisoryRows == 2
\* rows whose raw amount text or negative deposit matches catalog patterns
AdvisoryRows ==
    { [Row(1, Dec(5000, -2), NoneDec, Dec(5000, -2)) EXCEPT !.amount_raw = << "5", "0" >>],
      [Row(1, Dec(5000, -2), NoneDec, NoneDec) EXCEPT !.amount_raw = << "(", "5", ")" >>],
      [Row(1, Dec(-500, -2), NoneDec, Dec(5000, -2)) EXCEPT !.amount_raw = << "$", "5" >>],
      [Row(NoDate, NoneDec, NoneDec, NoneDec) EXCEPT !.amount_raw = << "$" >>] }
\* a learned CRITICAL pattern on the raw amount text
CriticalLearned ==
    ErrorPattern("learned_1", "Digit 5 in the amount", "CRITICAL", "amount_raw", "regex", << "5" >>,
                 "Check the amount")
Catalogs ==
    { << >>, _get_default_patterns, << CriticalLearned >>,
      Append(_get_default_patterns, CriticalLearned) }

InitAdvisory == Idle /\ pc = "extract"

AddAdvisoryRow ==
    /\ pc = "extract"
    /\ Len(table.rows) < MaxAdvisoryRows
    /\ \E r \in AdvisoryRows : table' = [table EXCEPT !.rows = Append(@, r)]
    /\ UNCHANGED << config, patterns, today, pc, run, signals, violations, matches,
                    report, prev, score_in, label_out, pattern_file, dbs, writers >>

\* the analyzers are run once more on the same table with another catalog
RerunWithCatalog ==
    /\ pc = "done"
    /\ run = 1
    /\ prev' = Outputs
    /\ run' = 2
    /\ \E c \in Catalogs \ {patterns} : patterns' = c
    /\ pc' = "risk"
    /\ UNCHANGED << table, config, today, signals, violations, matches,
                    report, score_in, label_out, pattern_file, dbs, writers >>

NextAdvisory ==
    \/ AddAdvisoryRow
    \/ FinishExtract
    \/ DetectStep
    \/ ValidateStep
    \/ MatchStep
    \/ SummarizeStep
    \/ AssessStep
    \/ RerunWithCatalog

SpecAdvisory == InitAdvisory /\ [][NextAdvisory]_vars

\* ------------------------- the risk detector under every toggle setting
MaxToggleRows == 3
TriggerKeys == {"low_confidence", "low_coverage", "structural_anomaly",
                "logic_failure", "unknown_template"}
\* trigger_rules: every setting of the five toggles, and the empty dict
ToggleMaps == [TriggerKeys -> BOOLEAN] \cup {<< >>}
\* a clean row of a known bank, an empty row, a row with a negative deposit
ToggleRows ==
    { [Row(1, Dec(5000, -2), NoneDec, Dec(5000, -2)) EXCEPT
          !.description = << "R", "B", "C" >>, !.date_confidence = 9000,
          !.amount_confidence = 9000, !.balance_confidence = 9000],
      Row(NoDate, NoneDec, NoneDec, NoneDec),
      Row(1, Dec(-500, -2), NoneDec, Dec(5000, -2)) }

InitToggles ==
    /\ pc = "rows"
    /\ \E tr \in ToggleMaps :
          Start(EmptyTable, [ValidationConfig EXCEPT !.trigger_rules = tr],
                NewReport(RiskSignalsToDict(<< >>)), 0)

AddToggleRow ==
    /\ pc = "rows"
    /\ Len(table.rows) < MaxToggleRows
    /\ \E r \in ToggleRows : table' = [table EXCEPT !.rows = Append(@, r)]
    /\ UNCHANGED << config, patterns, today, pc, run, signals, violations, matches,
                    report, prev, score_in, label_out, pattern_file, dbs, writers >>

NextToggles == AddToggleRow \/ RunDetect

SpecToggles == InitToggles /\ [][NextToggles]_vars

\* ------------------------------------------ the date rule on its own
MaxDateRows == 3
DateValues == {NoDate, 1, 2, 3}
DateRows == {Row(d, Dec(5000, -2), NoneDec, NoneDec) : d \in DateValues}

InitDates == Idle /\ pc = "rows"

AddDateRow ==
    /\ pc = "rows"
    /\ Len(table.rows) < MaxDateRows
    /\ \E r \in DateRows : table' = [table EXCEPT !.rows = Append(@, r)]
    /\ UNCHANGED << config, patterns, today, pc, run, signals, violations, matches,
                    report, prev, score_in, label_out, pattern_file, dbs, writers >>

\* the calendar day changes before the validator is called
DayPasses ==
    /\ pc = "rows"
    /\ today < MaxToday
    /\ today' = today + 1
    /\ UNCHANGED << table, config, patterns, pc, run, signals, violations, matches,
                    report, prev, score_in, label_out, pattern_file, dbs, writers >>

NextDates == AddDateRow \/ DayPasses \/ RunValidate

SpecDates == InitDates /\ [][NextDates]_vars

\* ---------------------------------------- the amount format on its own
MaxFormatRows == 2
\* 50.00, 1E+3, 1000, 1.2E+1, 1000000.00, 1000000.01, 999999.99, 1.500,
\* -5.00, -0.001
FormatValues ==
    { Dec(5000, -2), Dec(1, 3), Dec(1000, 0), Dec(12, 1), Dec(100000000, -2),
      Dec(100000001, -2), Dec(99999999, -2), Dec(1500, -3), Dec(-500, -2), Dec(-1, -3) }
FormatRows ==
    {Row(1, v, NoneDec, NoneDec) : v \in FormatValues}
    \cup {Row(1, NoneDec, v, NoneDec) : v \in FormatValues}
    \cup {Row(1, Dec(5000, -2), NoneDec, v) : v \in FormatValues}

InitFormat == Idle /\ pc = "rows"

AddFormatRow ==
    /\ pc = "rows"
    /\ Len(table.rows) < MaxFormatRows
    /\ \E r \in FormatRows : table' = [table EXCEPT !.rows = Append(@, r)]
    /\ UNCHANGED << config, patterns, today, pc, run, signals, violations, matches,
                    report, prev, score_in, label_out, pattern_file, dbs, writers >>

NextFormat == AddFormatRow \/ RunValidate

SpecFormat == InitFormat /\ [][NextFormat]_vars


\* ------------------------------------ the overall balance rule on its own
MaxOverallRows == 2
OverallRows == {Row(1, d, w, NoneDec) : d \in {NoneDec, Dec(0, -2), Dec(5000, -2)},
                                        w \in {NoneDec, Dec(2000, -2)}}
OverallOpenings == {NoneDec, Dec(10000, -2)}
OverallClosings == {NoneDec, Dec(12997, -2), Dec(13000, -2), Dec(14997, -2), Dec(14998, -2),
                    Dec(14999, -2), Dec(15000, -2), Dec(15001, -2), Dec(15002, -2),
                    Dec(15003, -2)}

InitOverall == Idle /\ pc = "rows"

AddOverallRow ==
    /\ pc = "rows"
    /\ Len(table.rows) < MaxOverallRows
    /\ \E r \in OverallRows : table' = [table EXCEPT !.rows = Append(@, r)]
    /\ UNCHANGED << config, patterns, today, pc, run, signals, violations, matches,
                    report, prev, score_in, label_out,
                    pattern_file, dbs, writers >>

\* OCRResult.opening_balance / closing_balance as the extractor found them
SetBalances ==
    /\ pc = "rows"
    /\ IsNone(table.opening_balance) /\ IsNone(table.closing_balance)
    /\ \E o \in OverallOpenings, c \in OverallClosings :
          /\ ~ (IsNone(o) /\ IsNone(c))
          /\ table' = [table EXCEPT !.opening_balance = o, !.closing_balance = c]
    /\ UNCHANGED << config, patterns, today, pc, run, signals, violations, matches,
                    report, prev, score_in, label_out,
                    pattern_file, dbs, writers >>

NextOverall == AddOverallRow \/ SetBalances \/ RunValidate

SpecOverall == InitOverall /\ [][NextOverall]_vars


\* ------------------------------ the rules and their counted checks
MaxCountRows == 2
CountDates == {NoDate, 1, 2, 3}
\* deposit, withdrawal, balance
CountAmounts ==
    { <<NoneDec, NoneDec, NoneDec>>,
      <<Dec(5000, -2), NoneDec, Dec(5000, -2)>>,
      <<Dec(1, -3), Dec(2000, -2), Dec(50001, -3)>> }
CountRows == {Row(d, a[1], a[2], a[3]) : d \in CountDates, a \in CountAmounts}

InitCount == Idle /\ pc = "extract"

AddCountRow ==
    /\ pc = "extract"
    /\ Len(table.rows) < MaxCountRows
    /\ \E r \in CountRows : table' = [table EXCEPT !.rows = Append(@, r)]
    /\ UNCHANGED << config, patterns, today, pc, run, signals, violations, matches,
                    report, prev, score_in, label_out,
                    pattern_file, dbs, writers >>

NextCount ==
    \/ AddCountRow
    \/ FinishExtract
    \/ DetectStep
    \/ ValidateStep
    \/ MatchStep
    \/ SummarizeStep
    \/ AssessStep

SpecCount == InitCount /\ [][NextCount]_vars


\* ------------------------------------- the weighted score on its own
MaxComponents == 3
MaxScale == 3
ComponentScores == {None, Some(2000), Some(10000), Some(15000)}
ComponentWeights == {-1000, 0, 1000, 3000}
ComponentLists ==
    UNION {[1..n -> {_component("component", s, w) : s \in ComponentScores, w \in ComponentWeights}] :
              n \in 0..MaxComponents}

InitWeighted ==
    /\ pc = "components"
    /\ \E cs \in ComponentLists :
          Start(EmptyTable, ValidationConfig,
                [NewReport(RiskSignalsToDict(<< >>)) EXCEPT !.confidence_components = cs], 0)

\* ConfidenceScorer._weighted_score(components)
RunWeighted ==
    /\ pc = "components"
    /\ report' = [report EXCEPT !.overall_confidence = _weighted_score(report.confidence_components)]
    /\ pc' = "weighted"
    /\ UNCHANGED << table, config, patterns, today, run, signals, violations, matches,
                    prev, score_in, label_out,
                    pattern_file, dbs, writers >>

NextWeighted == RunWeighted

SpecWeighted == InitWeighted /\ [][NextWeighted]_vars


\* ------------------------------------------ the feedback loop on its own
\* what OCR read and what it should have read
CorrectionTexts ==
    { << "(", "5", ")" >>, << "5", "O" >>, << "5", "0" >>, << "5", "l" >>, << "5", "1" >>,
      << "7" >> }
\* a catalog in which a pattern name contains a category token
Reviewed(name) ==
    Append(_get_default_patterns,
           ErrorPattern(name, "Pattern from a review", "LOW", "amount_raw", "regex", << "~" >>,
                        "Check the amount"))
FeedbackFiles ==
    InitialFiles \cup {FileOk(to_dicts(Reviewed("other_misread"))),
                       FileOk(to_dicts(Reviewed("seen_bracket_issue")))}

InitFeedback ==
    /\ pc = "feedback"
    /\ table = EmptyTable
    /\ config = ValidationConfig
    /\ patterns = _get_default_patterns
    /\ today = 1
    /\ run = 1
    /\ signals = << >>
    /\ violations = << >>
    /\ matches = << >>
    /\ report = NewReport(RiskSignalsToDict(<< >>))
    /\ prev = NoOutputs
    /\ score_in = 0
    /\ label_out = "Low"
    /\ pattern_file \in FeedbackFiles
    /\ dbs = [i \in Instances |-> NewDb]
    /\ writers = [w \in Writers |-> IdleWriter]

\* FeedbackLoop.process_correction, called by w on its database; the caller
\* keeps the category of its correction
ProcessCorrection(w) ==
    /\ writers[w].pc = "idle"
    /\ dbs[InstanceOf(w)].loaded
    /\ \E incorrect \in CorrectionTexts, correct \in CorrectionTexts :
          LET r == process_correction(dbs[InstanceOf(w)].patterns, pattern_file, "amount",
                                      incorrect, correct, << >>)
          IN  /\ dbs' = [dbs EXCEPT ![InstanceOf(w)].patterns = r.patterns]
              /\ pattern_file' = r.file
              /\ writers' = [writers EXCEPT ![w] =
                                [pc |-> "corrected",
                                 data |-> << _categorize_error(incorrect, correct) >>]]
    /\ UNCHANGED << table, config, patterns, today, pc, run, signals, violations, matches,
                    report, prev, score_in, label_out >>

NextFeedback ==
    \/ \E i \in Instances : Construct(i)
    \/ \E w \in Writers : ProcessCorrection(w)

SpecFeedback == InitFeedback /\ [][NextFeedback]_vars


\* ------------------------------- one database, its file and a second reader
\* the database that adds patterns, and the one constructed to read the file
Owner == InstanceOf(1)
Reader == CHOOSE i \in Instances : i # Owner

\* add_pattern(pattern), called by w on the owner's database, one call at a time
AddPattern(w) ==
    /\ InstanceOf(w) = Owner
    /\ writers[w].pc = "idle"
    /\ dbs[Owner].loaded
    /\ \E k \in 1..Len(LearnedNames) :
          LET r == add_pattern(dbs[Owner].patterns, pattern_file, Learned(k))
          IN  /\ dbs' = [dbs EXCEPT ![Owner].patterns = r.patterns]
              /\ pattern_file' = r.file
              /\ writers' = [writers EXCEPT ![w] = [pc |-> "done", data |-> << Learned(k) >>]]
    /\ UNCHANGED << table, config, patterns, today, pc, run, signals, violations, matches,
                    report, prev, score_in, label_out >>

NextRoundTrip ==
    \/ \E i \in Instances : Construct(i)
    \/ \E w \in Writers : AddPattern(w)

SpecRoundTrip == InitFeedback /\ [][NextRoundTrip]_vars


\* ------------------------------------ the value checks on their own
MaxValueRows == 2
ValueRows == {Row(1, d, w, NoneDec) : d \in {NoneDec, Dec(0, -2), Dec(5000, -2), Dec(-500, -2)},
                                      w \in {NoneDec, Dec(2000, -2), Dec(-2000, -2)}}

InitValue == Idle /\ pc = "rows"

AddValueRow ==
    /\ pc = "rows"
    /\ Len(table.rows) < MaxValueRows
    /\ \E r \in ValueRows : table' = [table EXCEPT !.rows = Append(@, r)]
    /\ UNCHANGED << config, patterns, today, pc, run, signals, violations, matches,
                    report, prev, score_in, label_out,
                    pattern_file, dbs, writers >>

NextValue == AddValueRow \/ RunMatch

SpecValue == InitValue /\ [][NextValue]_vars

\* ================================================================ claims
HitsOf(vs, rule, row_idx) == {j \in 1..Len(vs) : vs[j].rule = rule /\ vs[j].row = row_idx}

\* C1: the status of the verdict is NEEDS_REVIEW if the validator's
\* violations contain a CRITICAL one, otherwise REVIEW_RECOMMENDED if they
\* contain a HIGH one or failed_checks > 10% of total_checks, otherwise
\* APPROVED; this holds after the summary and still after the scoring step.
C1_StatusFromViolations ==
    pc \in {"score", "done"} =>
        report.validation_status =
            IF \E j \in 1..Len(violations) : violations[j].severity = "CRITICAL"
            THEN "NEEDS_REVIEW"
            ELSE IF \/ \E j \in 1..Len(violations) : violations[j].severity = "HIGH"
                    \/ 10 * report.failed_checks > report.total_checks
                 THEN "REVIEW_RECOMMENDED"
                 ELSE "APPROVED"

\* a verdict with a CRITICAL violation and a High confidence label
C1_Witness ==
    /\ pc = "done"
    /\ \E j \in 1..Len(violations) : violations[j].severity = "CRITICAL"
    /\ report.validation_status = "NEEDS_REVIEW"
    /\ report.confidence_label = "High"

\* C2: in the returned verdict total_checks >= passed_checks + failed_checks,
\* total_checks = max(count_checks(table), passed + failed), failed_checks is
\* the number of rule violations and passed_checks >= 0.
C2_TotalCoversChecks ==
    pc = "done" =>
        /\ report.total_checks >= report.passed_checks + report.failed_checks
        /\ report.total_checks =
              Max(count_checks(table), report.passed_checks + report.failed_checks)
        /\ report.failed_checks = Len(violations)
        /\ report.passed_checks >= 0

C2_Witness ==
    /\ pc = "done"
    /\ report.failed_checks > 1
    /\ report.passed_checks > 0

\* C3: the score returned by assess lies in [0,1], whatever the
\* engine-reported confidence, the component scores and the weights are.
C3_ScoreInUnitInterval ==
    pc = "assessed" =>
        /\ report.overall_confidence >= 0
        /\ report.overall_confidence <= 10000

\* an engine-reported confidence above 1 met a positive weight
C3_Witness ==
    /\ pc = "assessed"
    /\ table.overall_confidence > 10000
    /\ Get(config.confidence_weights, "engine_quality", 2500) > 0
    /\ report.rule_pass_rate > 10000
    /\ report.overall_confidence = 10000

\* C4 as stated: a table with zero rows and no engine-reported confidence,
\* run through the whole engine with the default configuration, gets score
\* exactly 0 and label Low.
C4_EmptyTableScoreZero ==
    (pc = "done" /\ table.rows = << >> /\ table.overall_confidence = 0) =>
        /\ report.overall_confidence = 0
        /\ report.confidence_label = "Low"

\* C4 amended: that table gets score 0.12 (the risk component 0.8 of the
\* single CRITICAL NO_ROWS signal, weighted 0.15 of 1.00) and label Low.
C4_EmptyTableScore ==
    (pc = "done" /\ table.rows = << >> /\ table.overall_confidence = 0) =>
        /\ report.overall_confidence = 1200
        /\ report.confidence_label = "Low"
        /\ Len(signals) = 1
        /\ signals[1].signal_type = "NO_ROWS"

C4_Witness ==
    /\ pc = "done"
    /\ table.rows = << >>
    /\ table.overall_confidence = 0
    /\ report.total_checks = 1

\* C5: the label is High iff score >= 0.85, Medium iff 0.70 <= score < 0.85,
\* Low iff score < 0.70.
C5_LabelBoundaries ==
    pc = "labelled" =>
        /\ (label_out = "High") <=> (score_in >= 8500)
        /\ (label_out = "Medium") <=> (score_in >= 7000 /\ score_in < 8500)
        /\ (label_out = "Low") <=> (score_in < 7000)

C5_Witness ==
    /\ pc = "labelled"
    /\ score_in = 8500
    /\ label_out = "High"

\* C6: a second run of the analyzers on the same table, with the same
\* configuration and catalog, yields the findings, counts, status and score
\* of the first run.
C6_Determinism ==
    (pc = "done" /\ run = 2) => Outputs = prev

\* C7: validate_running_balance emits exactly one CRITICAL
\* RUNNING_BALANCE_MISMATCH for row i >= 1 iff rows i-1 and i both have a
\* balance and |prev.balance + deposit - withdrawal - balance| > 0.02, with
\* that expected value, the actual balance and the difference; otherwise none.
C7_RunningBalance ==
    pc = "validated" =>
        /\ \A j \in 1..Len(violations) :
              violations[j].rule = "RUNNING_BALANCE_MISMATCH" =>
                  violations[j].row \in 1..(Len(table.rows) - 1)
        /\ \A i \in 2..Len(table.rows) :
              LET prevrow == table.rows[i - 1]
                  cur == table.rows[i]
                  hits == HitsOf(violations, "RUNNING_BALANCE_MISMATCH", i - 1)
                  exp == Mills(prevrow.balance)
                         + (IF cur.deposit.k = "none" THEN 0 ELSE Mills(cur.deposit))
                         - (IF cur.withdrawal.k = "none" THEN 0 ELSE Mills(cur.withdrawal))
                  diff == Abs(exp - Mills(cur.balance))
              IN  IF prevrow.balance.k # "none" /\ cur.balance.k # "none" /\ diff > 20
                  THEN /\ Cardinality(hits) = 1
                       /\ \A j \in hits :
                             /\ violations[j].severity = "CRITICAL"
                             /\ Mills(violations[j].expected) = exp
                             /\ violations[j].actual = cur.balance
                             /\ violations[j].difference = diff
                  ELSE hits = {}

\* balances 100.00 then deposit 50.00 with balance 150.03: one mismatch of 0.03
C7_Witness ==
    /\ pc = "validated"
    /\ \E j \in 1..Len(violations) :
          /\ violations[j].rule = "RUNNING_BALANCE_MISMATCH"
          /\ violations[j].expected = Dec(15000, -2)
          /\ violations[j].actual = Dec(15003, -2)
          /\ violations[j].difference = 30

\* C8: for every row, validate emits exactly one MEDIUM
\* BOTH_DEPOSIT_WITHDRAWAL iff deposit and withdrawal are both present and
\* non-zero, exactly one HIGH NO_AMOUNT iff neither is present, and never both.
C8_AmountPresence ==
    pc = "validated" =>
        \A i \in 1..Len(table.rows) :
            LET row == table.rows[i]
                both == HitsOf(violations, "BOTH_DEPOSIT_WITHDRAWAL", i - 1)
                none == HitsOf(violations, "NO_AMOUNT", i - 1)
                hasDep == row.deposit.k # "none"
                hasWd == row.withdrawal.k # "none"
            IN  /\ Cardinality(both) =
                      (IF hasDep /\ hasWd /\ row.deposit.c # 0 /\ row.withdrawal.c # 0
                       THEN 1 ELSE 0)
                /\ Cardinality(none) = (IF ~ hasDep /\ ~ hasWd THEN 1 ELSE 0)
                /\ \A j \in both : violations[j].severity = "MEDIUM"
                /\ \A j \in none : violations[j].severity = "HIGH"
                /\ both = {} \/ none = {}

C8_Witness ==
    /\ pc = "validated"
    /\ Len(table.rows) = 2
    /\ HitsOf(violations, "BOTH_DEPOSIT_WITHDRAWAL", 1) # {}
    /\ HitsOf(violations, "NO_AMOUNT", 0) # {}

\* C9: for a non-empty table with the coverage check enabled there is exactly
\* one LOW_FIELD_COVERAGE signal iff some field's coverage is strictly below
\* its threshold (0.95 / 0.90 / 0.85); it carries each such field's coverage
\* and the first (at most 10) missing row indices, with severity HIGH if some
\* below-threshold coverage is < 0.7 and MEDIUM otherwise.
C9_Missing(f) ==
    {i \in 0..(Len(table.rows) - 1) :
        CASE f = "transaction_date" -> table.rows[i + 1].transaction_date = 0
          [] f = "amount" -> table.rows[i + 1].deposit.k = "none"
                             /\ table.rows[i + 1].withdrawal.k = "none"
          [] OTHER -> table.rows[i + 1].balance.k = "none"}

C9_Threshold(f) ==
    CASE f = "transaction_date" -> 9500 [] f = "amount" -> 9000 [] OTHER -> 8500

C9_FieldCoverage ==
    (pc = "detected" /\ table.rows # << >>) =>
        LET n == Len(table.rows)
            present(f) == n - Cardinality(C9_Missing(f))
            below == {f \in {"transaction_date", "amount", "balance"} :
                         present(f) * 10000 < C9_Threshold(f) * n}
            sigs == {j \in 1..Len(signals) : signals[j].signal_type = "LOW_FIELD_COVERAGE"}
        IN  /\ Cardinality(sigs) = (IF below # {} THEN 1 ELSE 0)
            /\ \A j \in sigs :
                  /\ signals[j].severity =
                        (IF \E f \in below : present(f) * 10 < 7 * n THEN "HIGH" ELSE "MEDIUM")
                  /\ \A f \in below :
                        LET ex == signals[j].details.missing_examples[f] IN
                        /\ signals[j].details.coverage[f] = [num |-> present(f), den |-> n]
                        /\ Len(ex) = Min(10, Cardinality(C9_Missing(f)))
                        /\ \A k \in 1..Len(ex) :
                              /\ ex[k] \in C9_Missing(f)
                              /\ Cardinality({m \in C9_Missing(f) : m < ex[k]}) = k - 1

\* eleven rows lack the date, ten of them are listed
C9_Witness ==
    /\ pc = "detected"
    /\ Cardinality(C9_Missing("transaction_date")) = 11
    /\ \E j \in 1..Len(signals) :
          /\ signals[j].signal_type = "LOW_FIELD_COVERAGE"
          /\ Len(signals[j].details.missing_examples["transaction_date"]) = 10

\* C10: with the default catalog, bracket_negative_misread matches a row iff
\* its raw amount text contains '(' and ')', comma_decimal_confusion iff it
\* contains ',' and no '.'; "(1,200.00)" and "(1200.00)" match the former only.
C10_Has(raw, c) == \E k \in 1..Len(raw) : raw[k] = c

C10_Hit(name, row_idx) ==
    \E j \in 1..Len(matches) : matches[j].pattern_name = name /\ matches[j].row = row_idx

C10_BracketAndComma ==
    pc = "matched" =>
        \A i \in 1..Len(table.rows) :
            LET raw == table.rows[i].amount_raw IN
            /\ C10_Hit("bracket_negative_misread", i - 1)
                  <=> (C10_Has(raw, "(") /\ C10_Has(raw, ")"))
            /\ C10_Hit("comma_decimal_confusion", i - 1)
                  <=> (C10_Has(raw, ",") /\ ~ C10_Has(raw, "."))

C10_Witness ==
    /\ pc = "matched"
    /\ Len(table.rows) = 2
    /\ table.rows[1].amount_raw = <<"(", "1", ",", "2", "0", "0", ".", "0", "0", ")">>
    /\ table.rows[2].amount_raw = <<"(", "1", "2", "0", "0", ".", "0", "0", ")">>
    /\ C10_Hit("bracket_negative_misread", 0)
    /\ C10_Hit("bracket_negative_misread", 1)
    /\ ~ C10_Hit("comma_decimal_confusion", 0)
    /\ ~ C10_Hit("comma_decimal_confusion", 1)

\* C11: no analyzer raises on malformed per-row data: detect_signals,
\* validate, count_checks, match and assess return normally for every table,
\* also one with non-finite amounts.
C11_AnalyzersNeverRaise ==
    pc # "raised"

\* C12: when load_patterns finds the backing file missing or corrupt, the
\* catalog in memory becomes the 7 default patterns and the file is
\* rewritten, so that the persisted catalog equals the one in memory.
C12_LoadRewritesFile ==
    [][\A i \in Instances :
          (~ dbs[i].loaded /\ dbs'[i].loaded /\ pattern_file.state \in {"missing", "corrupt"})
              => /\ dbs'[i].patterns = _get_default_patterns
                 /\ pattern_file'.state = "ok"
                 /\ pattern_file'.patterns = dbs'[i].patterns]_vars

\* C13: once every add_pattern call has returned, the backing file holds a
\* readable catalog that contains every pattern that was added.
C13_NoLostUpdate ==
    (\A w \in Writers : writers[w].pc = "done") =>
        /\ pattern_file.state = "ok"
        /\ \A w \in Writers :
              \E k \in 1..Len(pattern_file.patterns) : pattern_file.patterns[k] = Learned(w)

C14_RowIndices(idx) == \A j \in 1..Len(idx) : idx[j] >= 0 /\ idx[j] < Len(table.rows)

C14_SignalIndices(sig) ==
    CASE sig.signal_type = "LOW_CONFIDENCE" ->
            C14_RowIndices([j \in 1..Len(sig.details) |-> sig.details[j].row])
      [] sig.signal_type = "LOW_FIELD_COVERAGE" ->
            \A f \in CoverageFields : C14_RowIndices(sig.details.missing_examples[f])
      [] sig.signal_type = "STRUCTURAL_ANOMALY" ->
            \A j \in 1..Len(sig.details) :
                /\ sig.details[j].type = "INCONSISTENT_ROWS" => C14_RowIndices(sig.details[j].rows)
                /\ sig.details[j].type = "MULTI_PAGE_DOCUMENT" =>
                       C14_RowIndices(sig.details[j].page_transitions)
      [] sig.signal_type = "LOGIC_FAILURE" ->
            \A j \in 1..Len(sig.details) :
                sig.details[j].type \in {"NEGATIVE_DEPOSIT", "NEGATIVE_WITHDRAWAL"} =>
                    C14_RowIndices(<< sig.details[j].row >>)
      [] OTHER -> TRUE

C14_IndicesInTable ==
    /\ \A j \in 1..Len(violations) :
          IF violations[j].rule \in {"NO_ROWS", "OVERALL_BALANCE_MISMATCH"}
          THEN violations[j].row = NoRow
          ELSE C14_RowIndices(<< violations[j].row >>)
    /\ C14_RowIndices([j \in 1..Len(matches) |-> matches[j].row])
    /\ \A j \in 1..Len(signals) : C14_SignalIndices(signals[j])

\* C14: once the table is extracted no step of the run changes it (rows and
\* row fields, order included), and every row index carried by a rule
\* violation, a pattern match or a risk-signal detail is a position of the
\* table: 0 <= index < number of rows.
C14_TableReadOnly ==
    [][/\ pc # "extract" => table' = table
       /\ C14_IndicesInTable']_vars

\* findings of all three analyzers about the last of two rows
C14_Witness ==
    /\ pc = "done"
    /\ Len(table.rows) = 2
    /\ \E j \in 1..Len(violations) : violations[j].row = 1
    /\ \E j \in 1..Len(matches) : matches[j].row = 1
    /\ \E j \in 1..Len(signals) :
          /\ signals[j].signal_type = "LOW_CONFIDENCE"
          /\ \E k \in 1..Len(signals[j].details) : signals[j].details[k].row = 1

C15_Verdict(rep) ==
    << rep.validation_status, rep.total_checks, rep.passed_checks, rep.failed_checks,
       rep.rule_pass_rate, rep.overall_confidence, rep.confidence_label >>

\* C15: the warning count of the verdict is the number of pattern matches,
\* and a second run on the same table that differs only in the pattern
\* catalog yields the same violations, signals, check counts, status and
\* confidence score, whatever the severities of the matches.
C15_MatchesAdvisory ==
    /\ pc \in {"score", "done"} => report.warnings = Len(matches)
    /\ (pc = "done" /\ run = 2) =>
          /\ C15_Verdict(report) = C15_Verdict(prev.report)
          /\ violations = prev.violations
          /\ signals = prev.signals

\* the second run found a CRITICAL match the first did not, verdict APPROVED
C15_Witness ==
    /\ pc = "done"
    /\ run = 2
    /\ Len(matches) > Len(prev.matches)
    /\ \E j \in 1..Len(matches) : matches[j].severity = "CRITICAL"
    /\ report.validation_status = "APPROVED"
    /\ report.warnings > 0

\* C16: for a table with zero rows validate returns exactly one violation,
\* CRITICAL NO_ROWS, count_checks returns 1, and the verdict has
\* total_checks 1, failed_checks 1, passed_checks 0, rule_pass_rate 0 and
\* status NEEDS_REVIEW.
C16_EmptyTableVerdict ==
    table.rows = << >> =>
        /\ pc \in {"patterns", "report", "score", "done"} =>
              /\ Len(violations) = 1
              /\ violations[1].rule = "NO_ROWS"
              /\ violations[1].severity = "CRITICAL"
              /\ count_checks(table) = 1
        /\ pc \in {"score", "done"} =>
              /\ report.total_checks = 1
              /\ report.failed_checks = 1
              /\ report.passed_checks = 0
              /\ report.rule_pass_rate = 0
              /\ report.validation_status = "NEEDS_REVIEW"

\* an empty table whose statement text gave opening 0.00 and closing 80.00
C16_Witness ==
    /\ pc = "done"
    /\ table.rows = << >>
    /\ ~ IsNone(table.opening_balance)
    /\ ~ IsNone(table.closing_balance)
    /\ table.opening_balance # table.closing_balance
    /\ Len(violations) = 1

\* C17: for a table with zero rows detect_signals returns exactly one
\* signal, NO_ROWS with severity CRITICAL and action MANUAL_REVIEW, under
\* every toggle configuration.
C17_EmptyTableSignal ==
    (pc = "detected" /\ table.rows = << >>) =>
        /\ Len(signals) = 1
        /\ signals[1].signal_type = "NO_ROWS"
        /\ signals[1].severity = "CRITICAL"
        /\ signals[1].action = "MANUAL_REVIEW"

\* the empty table with every check enabled
C17_Witness ==
    /\ pc = "detected"
    /\ table.rows = << >>
    /\ \A key \in TriggerKeys : trigger_enabled(config, key)
    /\ Len(signals) = 1

C18_TypeOf(key) ==
    CASE key = "low_confidence" -> "LOW_CONFIDENCE"
      [] key = "low_coverage" -> "LOW_FIELD_COVERAGE"
      [] key = "structural_anomaly" -> "STRUCTURAL_ANOMALY"
      [] key = "logic_failure" -> "LOGIC_FAILURE"
      [] OTHER -> "UNKNOWN_TEMPLATE"

C18_Count(type) == Cardinality({j \in 1..Len(signals) : signals[j].signal_type = type})

\* C18: for a non-empty table detect_signals returns at most one signal of
\* each of the five types and none of another type (so at most five, no
\* NO_ROWS), and a check that trigger_rules disables emits no signal.
C18_OneSignalPerCheck ==
    (pc = "detected" /\ table.rows # << >>) =>
        /\ \A j \in 1..Len(signals) :
              signals[j].signal_type \in {C18_TypeOf(key) : key \in TriggerKeys}
        /\ \A key \in TriggerKeys : C18_Count(C18_TypeOf(key)) <= 1
        /\ Len(signals) <= 5
        /\ \A key \in TriggerKeys :
              (key \in DOMAIN config.trigger_rules /\ ~ config.trigger_rules[key])
                  => C18_Count(C18_TypeOf(key)) = 0

\* all five checks have something to report and exactly one is disabled
C18_Witness ==
    /\ pc = "detected"
    /\ Len(table.rows) = 3
    /\ Len(detect_signals(table, ValidationConfig)) = 5
    /\ DOMAIN config.trigger_rules = TriggerKeys
    /\ Cardinality({key \in TriggerKeys : ~ config.trigger_rules[key]}) = 1
    /\ Len(signals) = 4

C19_Count(rule, sev, i) ==
    Cardinality({j \in 1..Len(violations) :
        violations[j].rule = rule /\ violations[j].row = i - 1 /\ violations[j].severity = sev})

C19_Any(rule, i) == Cardinality(HitsOf(violations, rule, i - 1))

\* C19: per row of a non-empty table, a missing date yields exactly one
\* CRITICAL DATE_MISSING and no other date violation; a date after today
\* yields one CRITICAL DATE_IN_FUTURE; a date before the date of the
\* immediately preceding row, when that row has one, yields one HIGH
\* DATE_NOT_MONOTONIC; equal dates and a preceding row without a date yield
\* no DATE_NOT_MONOTONIC.
C19_DateRule ==
    pc = "validated" =>
        \A i \in 1..Len(table.rows) :
            LET d == table.rows[i].transaction_date
                future == IF d # NoDate /\ d > today THEN 1 ELSE 0
                reversed == IF /\ d # NoDate /\ i > 1
                               /\ table.rows[i - 1].transaction_date # NoDate
                               /\ d < table.rows[i - 1].transaction_date
                            THEN 1 ELSE 0
            IN  /\ C19_Count("DATE_MISSING", "CRITICAL", i) = (IF d = NoDate THEN 1 ELSE 0)
                /\ C19_Count("DATE_IN_FUTURE", "CRITICAL", i) = future
                /\ C19_Count("DATE_NOT_MONOTONIC", "HIGH", i) = reversed
                /\ C19_Any("DATE_MISSING", i) + C19_Any("DATE_IN_FUTURE", i)
                      + C19_Any("DATE_NOT_MONOTONIC", i)
                   = (IF d = NoDate THEN 1 ELSE future + reversed)

\* dates 2, 2, 1 validated on day 1: future rows, an equal pair, a reversed pair
C19_Witness ==
    /\ pc = "validated"
    /\ today = 1
    /\ Len(table.rows) = 3
    /\ table.rows[1].transaction_date = 2
    /\ table.rows[2].transaction_date = 2
    /\ table.rows[3].transaction_date = 1
    /\ C19_Any("DATE_IN_FUTURE", 1) = 1
    /\ C19_Any("DATE_NOT_MONOTONIC", 2) = 0
    /\ C19_Any("DATE_NOT_MONOTONIC", 3) = 1

C20_Fields == {"deposit", "withdrawal", "balance"}

C20_Flags(i, field) ==
    Cardinality({j \in 1..Len(violations) :
        /\ violations[j].rule = "INVALID_AMOUNT_FORMAT"
        /\ violations[j].severity = "CRITICAL"
        /\ violations[j].row = i - 1
        /\ violations[j].field = field})

\* C20: for each present deposit, withdrawal or balance validate emits one
\* CRITICAL INVALID_AMOUNT_FORMAT tagged with the field iff the value has
\* more than 2 fractional digits or its magnitude is >= 1,000,000; any other
\* value, whatever its decimal representation or sign, is not flagged.
C20_AmountFormat ==
    pc = "validated" =>
        \A i \in 1..Len(table.rows), field \in C20_Fields :
            LET v == table.rows[i][field]
            IN  C20_Flags(i, field) =
                    (IF /\ ~ IsNone(v)
                        /\ \/ v.e < -2
                           \/ Abs(Mills(v)) >= 1000000 * 1000
                     THEN 1 ELSE 0)

\* C21: the overall-balance rule emits nothing when the opening or the closing
\* balance is absent; otherwise it emits exactly one CRITICAL
\* OVERALL_BALANCE_MISMATCH carrying expected, actual and difference and no row
\* index when |opening + sum of present deposits - sum of present withdrawals
\* - closing| > 0.02, and nothing when the difference is at most 0.02
C21_Overall == SelectSeq(violations, LAMBDA v : v.rule = "OVERALL_BALANCE_MISMATCH")

C21_PresentSum(field) ==
    SumSeq([i \in 1..Len(table.rows) |->
               IF IsNone(table.rows[i][field]) THEN 0 ELSE Mills(table.rows[i][field])])

C21_Expected == Mills(table.opening_balance) + C21_PresentSum("deposit") - C21_PresentSum("withdrawal")

C21_OverallBalance ==
    (pc = "validated" /\ table.rows # << >>) =>
        IF IsNone(table.opening_balance) \/ IsNone(table.closing_balance)
        THEN C21_Overall = << >>
        ELSE IF Abs(C21_Expected - Mills(table.closing_balance)) > 20
             THEN /\ Len(C21_Overall) = 1
                  /\ C21_Overall[1].severity = "CRITICAL"
                  /\ C21_Overall[1].row = NoRow
                  /\ Mills(C21_Overall[1].expected) = C21_Expected
                  /\ C21_Overall[1].actual = table.closing_balance
                  /\ C21_Overall[1].difference = Abs(C21_Expected - Mills(table.closing_balance))
             ELSE C21_Overall = << >>

C21_Witness ==
    /\ pc = "validated"
    /\ Len(table.rows) = 2
    /\ ~ IsNone(table.opening_balance) /\ ~ IsNone(table.closing_balance)
    /\ Abs(C21_Expected - Mills(table.closing_balance)) = 30
    /\ Len(C21_Overall) = 1

\* C22: validate returns at most count_checks(table) violations, each counted
\* check (a date check per row, a monotonicity check per adjacent pair, an
\* amount-presence check per row, a format check per present monetary field, a
\* running-balance check per adjacent pair with both balances, an overall check
\* when opening and closing are present) yielding at most one violation; so
\* passed_checks = total_checks - failed_checks and rule_pass_rate is in [0,1]
C22_Number(rules) == Len(SelectSeq(violations, LAMBDA v : v.rule \in rules))

C22_Pairs ==
    {i \in 2..Len(table.rows) :
        ~ IsNone(table.rows[i - 1].balance) /\ ~ IsNone(table.rows[i].balance)}

C22_CountedChecks ==
    /\ (pc \in {"patterns", "report", "score", "done"} /\ table.rows # << >>) =>
          /\ Len(violations) <= count_checks(table)
          /\ C22_Number({"DATE_MISSING", "DATE_IN_FUTURE"}) <= Len(table.rows)
          /\ C22_Number({"DATE_NOT_MONOTONIC"}) <= Len(table.rows) - 1
          /\ C22_Number({"NO_AMOUNT", "BOTH_DEPOSIT_WITHDRAWAL"}) <= Len(table.rows)
          /\ C22_Number({"INVALID_AMOUNT_FORMAT"})
                <= SumSeq([i \in 1..Len(table.rows) |-> PresentFields(table.rows[i])])
          /\ C22_Number({"RUNNING_BALANCE_MISMATCH"}) <= Cardinality(C22_Pairs)
          /\ C22_Number({"OVERALL_BALANCE_MISMATCH"})
                <= (IF IsNone(table.opening_balance) \/ IsNone(table.closing_balance)
                    THEN 0 ELSE 1)
    /\ (pc \in {"patterns", "report", "score", "done"} /\ table.rows = << >>) =>
          Len(violations) = 1 /\ count_checks(table) = 1
    /\ pc \in {"score", "done"} =>
          /\ report.total_checks = count_checks(table)
          /\ report.failed_checks = Len(violations)
          /\ report.passed_checks = report.total_checks - report.failed_checks
          /\ report.rule_pass_rate >= 0
          /\ report.rule_pass_rate <= 10000

C22_Witness ==
    /\ pc = "done"
    /\ Len(table.rows) = 2
    /\ C22_Number({"DATE_NOT_MONOTONIC"}) = 1
    /\ C22_Number({"DATE_IN_FUTURE"}) = 2
    /\ Len(violations) = count_checks(table)
    /\ report.passed_checks = 0

\* C23: the overall score is the weighted average sum(score*weight)/sum(weight)
\* over the components that are available and have a weight > 0, clamped to
\* [0,1]; a component that is unavailable or has a weight <= 0 does not
\* influence it, scaling all weights by one positive factor does not change it,
\* and it is 0 when no component qualifies
C23_Qualifies(c) == c.score # None /\ c.weight > 0

C23_Sum(cs, term(_)) == SumSeq([i \in 1..Len(cs) |-> IF C23_Qualifies(cs[i]) THEN term(cs[i]) ELSE 0])

C23_Average(cs) ==
    C23_Sum(cs, LAMBDA c : c.score[1] * c.weight) \div C23_Sum(cs, LAMBDA c : c.weight)

C23_Scaled(cs, k) == [i \in 1..Len(cs) |-> _component(cs[i].key, cs[i].score, cs[i].weight * k)]

C23_Frame(cs) ==
    /\ _weighted_score(SelectSeq(cs, C23_Qualifies)) = report.overall_confidence
    /\ \A k \in 1..MaxScale : _weighted_score(C23_Scaled(cs, k)) = report.overall_confidence

C23_ClampedAverage ==
    pc = "weighted" =>
        LET cs == report.confidence_components IN
        /\ report.overall_confidence =
              IF \A i \in 1..Len(cs) : ~ C23_Qualifies(cs[i]) THEN 0
              ELSE Max(0, Min(10000, C23_Average(cs)))
        /\ C23_Frame(cs)

\* C23 as stated: the score is the weighted average itself
C23_PlainAverage ==
    pc = "weighted" =>
        LET cs == report.confidence_components IN
        /\ report.overall_confidence =
              IF \A i \in 1..Len(cs) : ~ C23_Qualifies(cs[i]) THEN 0
              ELSE C23_Average(cs)
        /\ C23_Frame(cs)

\* two components count, an unavailable one and one of weight zero do not
C23_Witness ==
    /\ pc = "weighted"
    /\ LET cs == report.confidence_components IN
       /\ \E i \in 1..Len(cs) : cs[i].score = None /\ cs[i].weight > 0
       /\ \E i \in 1..Len(cs) : cs[i].score # None /\ cs[i].weight <= 0
       /\ \E i \in 1..Len(cs) : C23_Qualifies(cs[i])
       /\ report.overall_confidence > 0
       /\ report.overall_confidence < 10000

\* C24: the scorer is invoked only after the violations are merged, the check
\* counts reconciled and status and rule_pass_rate computed; in the returned
\* verdict the rule_consistency component's score is rule_pass_rate =
\* passed_checks/total_checks, overall_confidence is the scorer's score, not
\* the rule_pass_rate baseline, and confidence_label is the label of that score
C24_Baseline == IF report.total_checks > 0 THEN report.rule_pass_rate ELSE 0

C24_ScorerLast ==
    /\ pc = "score" =>
          /\ report.confidence_components = << >>
          /\ report.rule_violations = violations
          /\ report.failed_checks = Len(violations)
          /\ report.total_checks = count_checks(table)
          /\ report.validation_status = calculate_summary(report).validation_status
          /\ report.rule_pass_rate = (report.passed_checks * 10000) \div report.total_checks
          /\ report.overall_confidence = C24_Baseline
    /\ pc = "done" =>
          LET cs == report.confidence_components IN
          /\ Len(cs) = 4
          /\ cs[3].key = "rule_consistency"
          /\ cs[3].score = Some(report.rule_pass_rate)
          /\ report.rule_pass_rate = (report.passed_checks * 10000) \div report.total_checks
          /\ report.overall_confidence = assess(table, report, config).score
          /\ report.overall_confidence = _weighted_score(cs)
          /\ report.confidence_label = _label(report.overall_confidence)

\* a verdict whose confidence differs from its non-zero pass rate
C24_Witness ==
    /\ pc = "done"
    /\ report.rule_pass_rate > 0
    /\ report.overall_confidence # report.rule_pass_rate
    /\ report.confidence_label = "Medium"

\* C25: process_correction never changes the pattern catalog: for a correction
\* of any category, whether or not a pattern name contains the category token,
\* the pattern list in memory and the catalog file are the same before and
\* after the call
C25_CatalogUntouched ==
    [][\A w \in Writers :
          (writers[w].pc = "idle" /\ writers'[w].pc = "corrected")
              => /\ dbs' = dbs
                 /\ pattern_file' = pattern_file]_vars

C25_Similar(w) ==
    \E k \in 1..Len(dbs[InstanceOf(w)].patterns) :
        Contains(dbs[InstanceOf(w)].patterns[k].name, writers[w].data[1])

\* corrections of three categories were processed, one of them with a pattern
\* name that contains its category token
C25_Witness ==
    /\ \A w \in Writers : writers[w].pc = "corrected"
    /\ {writers[w].data[1] : w \in Writers} = {"bracket_issue", "o_zero_confusion", "other"}
    /\ \E w \in Writers : C25_Similar(w)
    /\ \E w \in Writers : ~ C25_Similar(w)

\* C26: match gives at most one PatternMatch per (row, pattern) pair, in row
\* order and then catalog order, and none for a pair whose target field is
\* absent in the row: a row without raw amount text (empty amount_raw) or
\* without raw date text has no match of a pattern that targets amount_raw or
\* date_raw
C26_CatalogIndex(name) == CHOOSE k \in 1..Len(patterns) : patterns[k].name = name

C26_NoMatchOnAbsentField ==
    pc = "matched" =>
        /\ \A a \in 1..Len(matches), b \in 1..Len(matches) :
              a < b =>
                 \/ matches[a].row < matches[b].row
                 \/ /\ matches[a].row = matches[b].row
                    /\ C26_CatalogIndex(matches[a].pattern_name)
                          < C26_CatalogIndex(matches[b].pattern_name)
        /\ \A j \in 1..Len(matches) :
              LET row == table.rows[matches[j].row + 1] IN
              /\ matches[j].field = "amount_raw" => row.amount_raw # << >>
              /\ matches[j].field = "date_raw" => row.date_raw # << >>

\* C27: after every add_pattern on one database, loading the backing file into
\* a new database yields the same ordered list of patterns, all seven fields
\* equal; each add_pattern appends its pattern to the persisted catalog, and no
\* existing entry is removed or changed
C27_RoundTrip ==
    [][/\ \A w \in Writers :
             (writers[w].pc = "idle" /\ writers'[w].pc = "done") =>
                 /\ dbs'[Owner].patterns = dbs[Owner].patterns \o writers'[w].data
                 /\ load_patterns(pattern_file') =
                       [patterns |-> dbs'[Owner].patterns, file |-> pattern_file']
                 /\ pattern_file'.state = "ok"
                 /\ Len(pattern_file'.patterns) = Len(dbs'[Owner].patterns)
                 /\ \A j \in 1..Len(pattern_file'.patterns), f \in PatternFields :
                       pattern_file'.patterns[j][f] = dbs'[Owner].patterns[j][f]
                 /\ pattern_file.state = "ok" =>
                       Prefix(pattern_file'.patterns, Len(pattern_file.patterns))
                          = pattern_file.patterns
       /\ (/\ ~ dbs[Reader].loaded /\ dbs'[Reader].loaded
           /\ \E w \in Writers : writers[w].pc = "done")
             => /\ dbs'[Reader].patterns = dbs[Owner].patterns
                /\ pattern_file' = pattern_file]_vars

\* a second database was loaded after two patterns were added to a catalog
\* that started from a corrupt file
C27_Witness ==
    /\ dbs[Owner].loaded /\ dbs[Reader].loaded
    /\ \A w \in Writers : InstanceOf(w) = Owner => writers[w].pc = "done"
    /\ Len(dbs[Owner].patterns) = Len(_get_default_patterns) + 2
    /\ dbs[Reader].patterns = dbs[Owner].patterns
    /\ pattern_file.state = "ok"

\* C28: the default pattern negative_deposit matches a row if and only if the
\* row's deposit is present and negative; a row without a deposit and with a
\* negative withdrawal has no negative_deposit match
C28_NegativeDepositOnly ==
    pc = "matched" =>
        \A i \in 1..Len(table.rows) :
            (\E j \in 1..Len(matches) :
                matches[j].pattern_name = "negative_deposit" /\ matches[j].row = i - 1)
            <=> (~ IsNone(table.rows[i].deposit) /\ Mills(table.rows[i].deposit) < 0)

\* C29: the validation status depends only on the rule violations and the
\* check counts, whatever the risk signals and the confidence score are; a
\* table with a CRITICAL MANUAL_REVIEW risk signal (LOGIC_FAILURE for a
\* negative deposit) but without CRITICAL or HIGH violation and with at most
\* 10% failed checks is APPROVED
C29_StatusOf(vs, failed, total) ==
    IF \E j \in 1..Len(vs) : vs[j].severity = "CRITICAL" THEN "NEEDS_REVIEW"
    ELSE IF (\E j \in 1..Len(vs) : vs[j].severity = "HIGH") \/ 10 * failed > total
         THEN "REVIEW_RECOMMENDED"
    ELSE "APPROVED"

C29_CriticalSignal ==
    \E j \in 1..Len(signals) :
        /\ signals[j].signal_type = "LOGIC_FAILURE"
        /\ signals[j].severity = "CRITICAL"
        /\ signals[j].action = "MANUAL_REVIEW"

C29_StatusIgnoresSignals ==
    pc \in {"score", "done"} =>
        /\ report.validation_status =
              C29_StatusOf(report.rule_violations, report.failed_checks, report.total_checks)
        /\ (/\ C29_CriticalSignal
            /\ \A j \in 1..Len(violations) : violations[j].severity \notin {"CRITICAL", "HIGH"}
            /\ 10 * report.failed_checks <= report.total_checks)
              => report.validation_status = "APPROVED"

\* an approved verdict for a table with a negative deposit
C29_Witness ==
    /\ pc = "done"
    /\ C29_CriticalSignal
    /\ report.risk_signals.critical_count > 0
    /\ \E i \in 1..Len(table.rows) : Mills(table.rows[i].deposit) < 0
    /\ report.validation_status = "APPROVED"

\* C30: when no opening or closing balance text is found and the extractor
\* falls back to the first and the last row's balance, a table whose rows all
\* have balances and whose running balances reconcile exactly has no
\* OVERALL_BALANCE_MISMATCH, whatever the first row's deposit or withdrawal is
C30_Fallback ==
    /\ table.rows # << >>
    /\ \A i \in 1..Len(table.rows) : ~ IsNone(table.rows[i].balance)
    /\ table = _extract_balances(table, NoMatch, NoMatch)
    /\ \A i \in 2..Len(table.rows) :
          Mills(ExpectedBalance(table.rows, i)) = Mills(table.rows[i].balance)

C30_FallbackPassesOverall ==
    (pc \in {"patterns", "report", "score", "done"} /\ C30_Fallback) =>
        \A j \in 1..Len(violations) :
            violations[j].rule \notin {"RUNNING_BALANCE_MISMATCH", "OVERALL_BALANCE_MISMATCH"}

====
